---- MODULE Spec2Model ----
(***************************************************************************)
(* A model of the search indexer and of the search results of              *)
(* common/djangoapps/search: es_requests.py (flaky_request,                *)
(* ElasticDatabase, MongoIndexer) and models.py (SearchResults,            *)
(* SearchResult, _snippet_generator, _match, _match_highlighter).          *)
(*                                                                         *)
(* Python strings are sequences of one-character strings, so that split,   *)
(* strip, lower, startswith, the regular expressions and the "in"          *)
(* substring test are computed character by character.  The empty string   *)
(* is << >>.  A fixed text no operation looks inside (the digest marker,   *)
(* the tail of a URL, the svg wrapper) is written as one element.          *)
(***************************************************************************)
EXTENDS Integers, Sequences, FiniteSets, TLC

VARIABLES
    module_collection,  \* the module store's modules, in the store's order
    MONGO_COURSE_CACHE, \* course -> offering name, Absent before the first fill
    engine,             \* the search engine: the documents it holds
    pc,                 \* "idle", "loop" (index_course's for), "request" (flaky_request's for)
    cursor,             \* index_course: find_modules_for_course(course)
    counter,            \* index_course: items taken from the cursor
    ended,              \* how the last call of index_course ended
    fr,                 \* flaky_request's frame
    flaky_ret,          \* how the last call of flaky_request ended
    calls,              \* calls of index_course and flaky_request begun so far
    writes,             \* history: every document the engine stored, with the item it is of
    submitted,          \* history: the items index_data was called for in this call
    built,              \* history: the items basic_dict was called for
    lookups,            \* history: course -> the items whose basic_dict looked the
                        \* course element up in the store, one entry per lookup
    run_log,            \* history: the calls of index_course that ended
    video_module,       \* uuid_from_video_module: the module passed in
    uuid_entries,       \* the speed:identifier pairs video_module's data was written from
    uuid_ret,           \* uuid_from_video_module: Pending, or how the call ended
    snippet,            \* _snippet_generator: the call's arguments and what it returned
    matched,            \* _match: the pair of words and what it returned
    results,            \* a SearchResults object: entries, filters, the last filter() result
    wire,               \* bulk_index_item's string and the engine's response made of it
    problem             \* searchable_text_from_problem_data: the payload and the text

storeVars   == <<module_collection>>
indexVars   == <<MONGO_COURSE_CACHE, cursor, counter, ended, submitted, built,
                 lookups, run_log>>
requestVars == <<engine, fr, flaky_ret, writes>>
uuidVars    == <<video_module, uuid_entries, uuid_ret>>
queryVars   == <<snippet, matched, results, wire, problem>>

vars == <<module_collection, MONGO_COURSE_CACHE, engine, pc, cursor, counter,
          ended, fr, flaky_ret, calls, writes, submitted, built, lookups,
          run_log, video_module, uuid_entries, uuid_ret, snippet, matched,
          results, wire, problem>>

\* A function that has not been called, an object that has not been built
Idle == [status |-> "none"]

IdleQuery ==
    /\ snippet = Idle
    /\ matched = Idle
    /\ results = Idle
    /\ wire = Idle
    /\ problem = Idle

-----------------------------------------------------------------------------
(* Python's str operations.                                                *)

\* sub in s
Contains(sub, s) ==
    \E k \in 0..(Len(s) - Len(sub)) : SubSeq(s, k + 1, k + Len(sub)) = sub

RECURSIVE SplitAcc(_, _, _, _)
SplitAcc(s, sep, cur, k) ==
    IF k > Len(s) THEN <<cur>>
    ELSE IF s[k] = sep THEN <<cur>> \o SplitAcc(s, sep, <<>>, k + 1)
    ELSE SplitAcc(s, sep, Append(cur, s[k]), k + 1)

\* s.split(sep) for a one-character sep: always at least one piece
split(s, sep) == SplitAcc(s, sep, <<>>, 1)

RECURSIVE join(_, _)
\* sep.join(pieces)
join(sep, pieces) ==
    IF Len(pieces) = 0 THEN <<>>
    ELSE IF Len(pieces) = 1 THEN pieces[1]
    ELSE pieces[1] \o sep \o join(sep, Tail(pieces))

RECURSIVE SeqsUpTo(_, _)
\* the sequences of at most n elements of S
SeqsUpTo(S, n) ==
    IF n = 0 THEN {<<>>}
    ELSE {<<>>} \cup {<<x>> \o q : x \in S, q \in SeqsUpTo(S, n - 1)}

UpperCase == <<"A", "B", "C", "D", "E", "F", "G", "H", "I", "J", "K", "L", "M", "N", "O", "P", "Q", "R", "S", "T", "U", "V", "W", "X", "Y", "Z">>
LowerCase == <<"a", "b", "c", "d", "e", "f", "g", "h", "i", "j", "k", "l", "m", "n", "o", "p", "q", "r", "s", "t", "u", "v", "w", "x", "y", "z">>

LowerChar(c) ==
    IF \E k \in 1..Len(UpperCase) : UpperCase[k] = c
    THEN LowerCase[CHOOSE k \in 1..Len(UpperCase) : UpperCase[k] = c]
    ELSE c

\* s.lower()
lower(s) == [k \in 1..Len(s) |-> LowerChar(s[k])]

Whitespace == {" ", "\t", "\n", "\r"}

RECURSIVE lstrip(_)
lstrip(s) == IF s # <<>> /\ Head(s) \in Whitespace THEN lstrip(Tail(s)) ELSE s

RECURSIVE rstrip(_)
rstrip(s) ==
    IF s # <<>> /\ s[Len(s)] \in Whitespace THEN rstrip(SubSeq(s, 1, Len(s) - 1)) ELSE s

\* s.strip()
strip(s) == rstrip(lstrip(s))


-----------------------------------------------------------------------------
(* Python values.  A value is [t, v]: t its type, v its content.           *)
(*   unicode, str: v the characters                                        *)
(*   dict: v the characters of the unicode string under its "data" key     *)
(*   list: v the elements, each a whole string ([""] is <<"">>)            *)
(*   bool: v is <<>> for False                                             *)

Unicode(s) == [t |-> "unicode", v |-> s]
Str(s)     == [t |-> "str", v |-> s]
Dict(s)    == [t |-> "dict", v |-> s]
List(xs)   == [t |-> "list", v |-> xs]
None       == [t |-> "none", v |-> <<>>]
False      == [t |-> "bool", v |-> <<>>]
\* a key the dict does not have
Absent     == [t |-> "absent", v |-> <<>>]

\* bool(x): an empty string, an empty list and False are false
Truthy(x) == x.v # <<>>

-----------------------------------------------------------------------------
(* MongoIndexer.uuid_from_video_module                                     *)

\* video_module.get("definition", {"data": ""}).get("data", "")
DefinitionData(module) ==
    IF module.definition.t = "absent" THEN Str(<<>>) ELSE module.definition

\* if isinstance(data, dict): data = data.get("data", "")
Unwrap(data) == IF data.t = "dict" THEN Unicode(data.v) ELSE data

\* (entry + ":").split(":")[0] and [1]
EntryKey(entry)   == split(entry \o <<":">>, ":")[1]
EntryValue(entry) == split(entry \o <<":">>, ":")[2]

\* SpeedMapValue keeping the first entry of a key
SpeedMapFirstValue(uuids, key) ==
    LET first == CHOOSE k \in 1..Len(uuids) :
                     /\ EntryKey(uuids[k]) = key
                     /\ \A m \in 1..(k - 1) : EntryKey(uuids[m]) # key
    IN  EntryValue(uuids[first])

\* speed_map: a later entry with the same key replaces the earlier one
SpeedMapValue(uuids, key) ==
    LET last == CHOOSE k \in 1..Len(uuids) :
                    /\ EntryKey(uuids[k]) = key
                    /\ \A m \in (k + 1)..Len(uuids) : EntryKey(uuids[m]) # key
    IN  EntryValue(uuids[last])

SpeedMapKeys(uuids) == {EntryKey(uuids[k]) : k \in 1..Len(uuids)}

OneZero == <<"1", ".", "0">>

\* The ways the call can end: [raised, value].  speed_map.items() has the
\* dict's order, so with several keys containing "1.0" element [0] is any
\* of them.
uuid_from_video_module(module) ==
    LET data  == Unwrap(DefinitionData(module))
        uuids == split(data.v, ",")
        hits  == {key \in SpeedMapKeys(uuids) : Contains(OneZero, key)}
    IN  IF data.t \notin {"unicode", "str"}
        THEN {[raised |-> "AttributeError", value |-> False]}
        ELSE IF Len(uuids) = 1
        THEN {[raised |-> "no", value |-> False]}
        ELSE IF hits = {}
        THEN {[raised |-> "IndexError", value |-> False]}
        ELSE {[raised |-> "no",
               value  |-> [t |-> data.t, v |-> SpeedMapValue(uuids, key)]] :
                 key \in hits}

-----------------------------------------------------------------------------
(* The content store's chunk collection (fs.chunks).  A chunk is its file  *)
(* name, its data decoded as utf-8, and what json.loads makes of that      *)
(* data: "ValueError", "KeyError" (an object without a "text" key) or the  *)
(* list under "text".                                                      *)

chunk_collection == <<
    [name |-> <<"x", "y", "z", ".", "s", "r", "t", ".", "s", "j", "s", "o", "n">>, data |-> <<"{", "\"", "t", "e", "x", "t", "\"", ":", " ", "[", "\"", "h", "e", "l", "l", "o", "\"", ",", " ", "\"", "\"", ",", " ", "\"", "w", "o", "r", "l", "d", "\"", "]", "}">>,
     json |-> [error |-> "no", text |-> <<<<"h", "e", "l", "l", "o">>, <<>>, <<"w", "o", "r", "l", "d">>>>]],
    [name |-> <<"e", "m", "p", ".", "s", "r", "t", ".", "s", "j", "s", "o", "n">>, data |-> <<"{", "\"", "t", "e", "x", "t", "\"", ":", " ", "[", "\"", "\"", ",", " ", "\"", "\"", "]", "}">>,
     json |-> [error |-> "no", text |-> << <<>>, <<>> >>]],
    [name |-> <<"b", "a", "d", ".", "s", "r", "t", ".", "s", "j", "s", "o", "n">>, data |-> <<"{", "\"", "t", "e", "x", "t", "\"">>,
     json |-> [error |-> "ValueError", text |-> <<>>]],
    [name |-> <<"q", "u", "a", ".", "s", "r", "t", ".", "s", "j", "s", "o", "n">>, data |-> <<"c", "o", "m", ".", "a", "p", "p", "l", "e", ".", "q", "u", "a", "r", "a", "n", "t", "i", "n", "e">>,
     json |-> [error |-> "ValueError", text |-> <<>>]] >>

\* chunk_collection.find_one({"files_id.name": re.compile(".*?" + uuid + ".*?")}):
\* the first chunk whose name contains uuid, 0 for None
find_one_chunk(uuid) ==
    LET hits == {k \in 1..Len(chunk_collection) :
                    Contains(uuid, chunk_collection[k].name)}
    IN  IF hits = {} THEN 0 ELSE CHOOSE k \in hits : \A m \in hits : k <= m

AppleQuar == <<"c", "o", "m", ".", "a", "p", "p", "l", "e", ".", "q", "u", "a", "r">>

RECURSIVE FilterNone(_)
\* filter(None, fragments): the non-empty fragments
FilterNone(fragments) ==
    IF fragments = <<>> THEN <<>>
    ELSE IF Head(fragments) = <<>> THEN FilterNone(Tail(fragments))
    ELSE <<Head(fragments)>> \o FilterNone(Tail(fragments))

\* return [""]
NoTranscript == List(<<"">>)

\* MongoIndexer.find_transcript_for_video_module; uuid is how the call of
\* uuid_from_video_module ends, [raised, value]
find_transcript_for_video_module(module, uuid) ==
    LET data  == Unwrap(DefinitionData(module))
        k     == find_one_chunk(uuid.value.v)
        chunk == chunk_collection[k]
    IN  IF data.t # "unicode" THEN [raised |-> "no", value |-> NoTranscript]
        ELSE IF uuid.raised # "no" THEN [raised |-> uuid.raised, value |-> None]
        ELSE IF ~Truthy(uuid.value) THEN [raised |-> "no", value |-> NoTranscript]
        ELSE IF k = 0 THEN [raised |-> "no", value |-> NoTranscript]
        ELSE IF Contains(AppleQuar, chunk.data)
        THEN [raised |-> "no", value |-> NoTranscript]
        ELSE IF chunk.json.error = "ValueError"
        THEN [raised |-> "no", value |-> Unicode(chunk.data)]
        ELSE IF chunk.json.error = "KeyError"
        THEN [raised |-> "KeyError", value |-> None]
        ELSE [raised |-> "no",
              value  |-> Unicode(join(<<" ">>, FilterNone(chunk.json.text)))]

-----------------------------------------------------------------------------
(* MongoIndexer.thumbnail_from_video_module                                *)

Youku == <<"p", "l", "a", "y", "e", "r", ".", "y", "o", "u", "k", "u", ".", "c", "o", "m">>

HTTP  == <<"h", "t", "t", "p", ":", "/", "/">>
HTTPS == <<"h", "t", "t", "p", "s", ":", "/", "/">>

YoukuThumbnail    == Str(HTTPS \o <<"lh6.ggpht.com/8_h5j6hiFXdSl5atSJDf8bJBy85b3IlzNWeRzOqRurfNVI_oiEG-dB3C0vHRclOG8A=w170">>)
FallbackThumbnail == Str(HTTP \o <<"img.youtube.com/vi/Tt9g2se1LcM/4.jpg">>)
VideoThumbnail(uuid) ==
    [t |-> uuid.t, v |-> HTTP \o <<"img.youtube.com/vi/">> \o uuid.v \o <<"/0.jpg">>]

\* "player.youku.com" in data: a substring test on a string, a key test on
\* a dict (its only key is "data"), a TypeError on None
thumbnail_from_video_module(module, uuid) ==
    LET data == DefinitionData(module)
    IN  IF data.t = "none" THEN [raised |-> "TypeError", value |-> None]
        ELSE IF data.t \in {"unicode", "str"} /\ Contains(Youku, data.v)
        THEN [raised |-> "no", value |-> YoukuThumbnail]
        ELSE IF uuid.raised # "no" THEN [raised |-> uuid.raised, value |-> None]
        ELSE IF uuid.value = False
        THEN [raised |-> "no", value |-> FallbackThumbnail]
        ELSE [raised |-> "no", value |-> VideoThumbnail(uuid.value)]

-----------------------------------------------------------------------------
(* MongoIndexer.searchable_text_from_problem_data and thumbnail_from_html  *)

\* s[k..] starts with p
StartsAt(p, s, k) ==
    k + Len(p) - 1 <= Len(s) /\ SubSeq(s, k, k + Len(p) - 1) = p

\* where "(.*?)close" ends a match begun at k: the nearest close at or after
\* k with no newline before it ("." matches no newline), 0 for no match
NextClose(close, s, k) ==
    LET js == {j \in k..Len(s) :
                  StartsAt(close, s, j) /\ \A m \in k..(j - 1) : s[m] # "\n"}
    IN  IF js = {} THEN 0 ELSE CHOOSE j \in js : \A m \in js : j <= m

RECURSIVE FindAllFrom(_, _, _, _)
FindAllFrom(open, close, s, k) ==
    IF k > Len(s) THEN <<>>
    ELSE IF StartsAt(open, s, k)
    THEN LET j == NextClose(close, s, k + Len(open))
         IN  IF j = 0 THEN FindAllFrom(open, close, s, k + 1)
             ELSE <<SubSeq(s, k + Len(open), j - 1)>>
                      \o FindAllFrom(open, close, s, j + Len(close))
    ELSE FindAllFrom(open, close, s, k + 1)

\* re.findall(open + "(.*?)" + close, s): the groups, left to right
findall(open, close, s) == FindAllFrom(open, close, s, 1)

Explanation == <<"E", "x", "p", "l", "a", "n", "a", "t", "i", "o", "n">>

\* text is not "Explanation": an identity test of a string built by
\* re.findall against the literal's object, true of every such string
is_not_Explanation(text) == TRUE

RECURSIVE SubEscaped(_, _)
\* re.sub(r"\\(.*?\\)", "", s): a backslash through the next backslash
SubEscaped(s, k) ==
    IF k > Len(s) THEN <<>>
    ELSE IF s[k] = "\\"
    THEN LET j == NextClose(<<"\\">>, s, k + 1)
         IN  IF j = 0 THEN <<s[k]>> \o SubEscaped(s, k + 1)
             ELSE SubEscaped(s, j + 1)
    ELSE <<s[k]>> \o SubEscaped(s, k + 1)

\* [a-zA-Z0-9/\.\= \"\'_-]
TagChars ==
    {"a", "b", "c", "d", "e", "f", "g", "h", "i", "j", "k", "l", "m", "n",
     "o", "p", "q", "r", "s", "t", "u", "v", "w", "x", "y", "z", "A", "B",
     "C", "D", "E", "F", "G", "H", "I", "J", "K", "L", "M", "N", "O", "P",
     "Q", "R", "S", "T", "U", "V", "W", "X", "Y", "Z", "0", "1", "2", "3",
     "4", "5", "6", "7", "8", "9", "/", ".", "=", " ", "\"", "'", "_", "-"}

\* the last index of the run of TagChars that begins at k (k - 1: no run)
RECURSIVE TagRunEnd(_, _)
TagRunEnd(s, k) ==
    IF k <= Len(s) /\ s[k] \in TagChars THEN TagRunEnd(s, k + 1) ELSE k - 1

RECURSIVE SubTags(_, _)
\* re.sub(r"<[a-zA-Z0-9/\.\= \"\'_-]+>", "", s)
SubTags(s, k) ==
    IF k > Len(s) THEN <<>>
    ELSE LET m == TagRunEnd(s, k + 1)
         IN  IF s[k] = "<" /\ m >= k + 1 /\ m + 1 <= Len(s) /\ s[m + 1] = ">"
             THEN SubTags(s, m + 2)
             ELSE <<s[k]>> \o SubTags(s, k + 1)

\* the last index of the run of characters equal to s[k] that begins at k
RECURSIVE SameRunEnd(_, _)
SameRunEnd(s, k) ==
    IF k + 1 <= Len(s) /\ s[k + 1] = s[k] THEN SameRunEnd(s, k + 1) ELSE k

RECURSIVE SubRepetitions(_, _)
\* re.sub(r"(.)\1{4,}", "", s): one pass, left to right
SubRepetitions(s, k) ==
    IF k > Len(s) THEN <<>>
    ELSE LET m == SameRunEnd(s, k)
         IN  IF s[k] # "\n" /\ m - k + 1 >= 5
             THEN SubRepetitions(s, m + 1)
             ELSE <<s[k]>> \o SubRepetitions(s, k + 1)

\* [raised, value]
searchable_text_from_problem_data(mongo_element) ==
    LET data       == mongo_element.definition
        ps         == SelectSeq(findall(<<"<", "p", ">">>, <<"<", "/", "p", ">">>, data.v),
                                is_not_Explanation)
        texts      == findall(<<"<", "t", "e", "x", "t", ">">>,
                              <<"<", "/", "t", "e", "x", "t", ">">>, data.v)
        paragraphs == join(<<" ">>, ps) \o <<" ">> \o join(<<" ">>, texts)
        cleaned    == SelectSeq(SubEscaped(paragraphs, 1), LAMBDA c : c # "\\")
        no_tags    == SubTags(cleaned, 1)
    IN  IF data.t = "absent" THEN [raised |-> "KeyError", value |-> None]
        ELSE IF data.t \notin {"unicode", "str"}
        THEN [raised |-> "TypeError", value |-> None]
        ELSE [raised |-> "no", value |-> [t |-> data.t, v |-> SubRepetitions(no_tags, 1)]]

SvgOpen  == <<"<", "svg xmlns='http://www.w3.org/2000/svg' width=200 height=200><foreignObject width='100%' height='100%'>">>
SvgClose == <<"</foreignObject></svg>">>

\* get_thumbnail, type_ "problem": thumbnail_from_html(mongo_module["definition"]["data"])
thumbnail_from_html(mongo_module) ==
    LET html == mongo_module.definition
    IN  IF html.t = "absent" THEN [raised |-> "KeyError", value |-> None]
        ELSE IF html.t \notin {"unicode", "str"}
        THEN [raised |-> "TypeError", value |-> None]
        ELSE [raised |-> "no", value |-> [t |-> html.t, v |-> SvgOpen \o html.v \o SvgClose]]

-----------------------------------------------------------------------------
(* json.dumps and hashlib.sha1                                             *)

\* What json.dumps writes for the characters of a string, half by half
RECURSIVE JsonEscape(_)
JsonEscape(s) ==
    IF s = <<>> THEN <<>>
    ELSE IF Len(s) = 1
    THEN (IF s[1] \in {"\"", "\\"} THEN <<"\\", s[1]>>
          ELSE IF s[1] = "\n" THEN <<"\\", "n">>
          ELSE s)
    ELSE JsonEscape(SubSeq(s, 1, Len(s) \div 2))
             \o JsonEscape(SubSeq(s, Len(s) \div 2 + 1, Len(s)))

JsonString(s) == <<"\"">> \o JsonEscape(s) \o <<"\"">>

JsonPair(key, s) == JsonString(key) \o <<":", " ">> \o JsonString(s)

\* json.dumps(mongo_module["_id"]): the keys in the dict's own order, which
\* is the same for every _id
json_dumps_id(id) ==
    <<"{">> \o join(<<",", " ">>,
                    <<JsonPair(<<"t", "a", "g">>, id.tag), JsonPair(<<"o", "r", "g">>, id.org),
                      JsonPair(<<"c", "o", "u", "r", "s", "e">>, id.course),
                      JsonPair(<<"c", "a", "t", "e", "g", "o", "r", "y">>, id.category),
                      JsonPair(<<"n", "a", "m", "e">>, id.name)>>) \o <<"}">>

\* hashlib.sha1(s).hexdigest(): a digest is its marker followed by the text
\* it is the digest of, so that equal digests have equal texts
sha1_hexdigest(s) == <<"sha1">> \o s

-----------------------------------------------------------------------------
(* The module store (modulestore collection): what the model draws its     *)
(* collections from.                                                       *)

Module(category, name, definition, display_name) ==
    [_id        |-> [tag |-> <<"i", "4", "x">>, org |-> <<"M", "I", "T", "x">>, course |-> <<"6", ".", "0", "0", "2", "x">>,
                     category |-> category, name |-> name],
     definition |-> definition,
     metadata   |-> display_name]

Course6002x == <<"6", ".", "0", "0", "2", "x">>

\* The course's own element, category "course": its name is the offering.
CourseElements == {
    Module(<<"c", "o", "u", "r", "s", "e">>, <<"2", "0", "1", "3", "_", "S", "p", "r", "i", "n", "g">>, Absent, Unicode(<<"C", "i", "r", "c", "u", "i", "t", "s">>)),
    Module(<<"c", "o", "u", "r", "s", "e">>, <<>>, Absent, Unicode(<<"C", "i", "r", "c", "u", "i", "t", "s">>)) }

video_xyz       == Module(<<"v", "i", "d", "e", "o">>, <<"v", "1">>, Unicode(<<"0", ".", "7", "5", ":", "a", "b", "c", ",", "1", ".", "0", ":", "x", "y", "z">>), Unicode(<<"I", "n", "t", "r", "o">>))
video_single    == Module(<<" ", "V", "i", "d", "e", "o", " ">>, <<"v", "2">>, Unicode(<<"0", ".", "7", "5", ":", "a", "b", "c">>), Unicode(<<"I", "n", "t", "r", "o">>))
video_no_speed  == Module(<<"v", "i", "d", "e", "o">>, <<"v", "3">>, Unicode(<<"0", ".", "7", "5", ":", "a", "b", "c", ",", "1", ".", "2", "5", ":", "d", "e", "f">>), Absent)
video_no_chunk  == Module(<<"v", "i", "d", "e", "o">>, <<"v", "4">>, Unicode(<<"0", ".", "7", "5", ":", "a", "b", "c", ",", "1", ".", "0", ":", "q", "q", "q">>), Absent)
video_no_text   == Module(<<"v", "i", "d", "e", "o">>, <<"v", "5">>, Unicode(<<"1", ".", "0", ":", "e", "m", "p", ",", "1", ".", "2", "5">>), Absent)
video_no_def    == Module(<<"v", "i", "d", "e", "o">>, <<"v", "6">>, Absent, Unicode(<<"I", "n", "t", "r", "o">>))
video_bad_json  == Module(<<"v", "i", "d", "e", "o">>, <<"v", "8">>, Unicode(<<"1", ".", "0", ":", "b", "a", "d", ",">>), Absent)
problem_hi      == Module(<<"P", "R", "O", "B", "L", "E", "M">>, <<"p", "1">>, Unicode(<<"<", "p", ">", "H", "i", "<", "/", "p", ">">>), Unicode(<<"Q", "u", "i", "z">>))
problem_no_def  == Module(<<"p", "r", "o", "b", "l", "e", "m">>, <<"p", "2">>, Absent, Absent)
problem_blank   == Module(<<"p", "r", "o", "b", "l", "e", "m">>, <<"p", "3">>, Unicode(<<"<", "p", ">", "<", "/", "p", ">", "<", "p", ">", "<", "/", "p", ">", "<", "p", ">", "<", "/", "p", ">", "<", "p", ">", "<", "/", "p", ">", "<", "p", ">", "<", "/", "p", ">">>), Absent)
html_page       == Module(<<"h", "t", "m", "l">>, <<"h", "1">>, Unicode(<<"<", "p", ">", "H", "i", "<", "/", "p", ">">>), Absent)

ContentModules == {
    video_xyz, video_single, video_no_speed, video_no_chunk, video_no_text,
    video_no_def, video_bad_json,
    problem_hi, problem_no_def, problem_blank, html_page }

-----------------------------------------------------------------------------
(* MongoIndexer.basic_dict                                                 *)

Courses == {Course6002x}

\* MONGO_COURSE_CACHE.get(course, False)
CacheGet(course) ==
    IF MONGO_COURSE_CACHE[course].t = "absent" THEN False
    ELSE MONGO_COURSE_CACHE[course]

\* module_collection.find_one({"_id.course": ..., "_id.category": "course"})["_id"]["name"]
course_name_from_mongo_module(mongo_module) ==
    LET hits == {k \in 1..Len(module_collection) :
                    /\ module_collection[k]._id.course = mongo_module._id.course
                    /\ module_collection[k]._id.category = <<"c", "o", "u", "r", "s", "e">>}
        first == CHOOSE k \in hits : \A m \in hits : k <= m
    IN  IF hits = {} THEN [raised |-> "TypeError", value |-> None]
        ELSE [raised |-> "no", value |-> Unicode(module_collection[first]._id.name)]

\* if not MONGO_COURSE_CACHE.get(course, False)
CacheMiss(course) == ~Truthy(CacheGet(course))

\* get_searchable_text and get_thumbnail for one type_, with uuid how
\* uuid_from_video_module ends for this module
get_searchable_text(mongo_module, type_, uuid) ==
    IF type_ = "problem" THEN searchable_text_from_problem_data(mongo_module)
    ELSE find_transcript_for_video_module(mongo_module, uuid)

get_thumbnail(mongo_module, type_, uuid) ==
    IF type_ = "problem" THEN thumbnail_from_html(mongo_module)
    ELSE thumbnail_from_video_module(mongo_module, uuid)

\* mongo_module.get("metadata", {"display_name": ""}).get("display_name", "")
\*     + " (" + mongo_module["_id"]["course"] + ")"
DisplayName(mongo_module) ==
    (IF mongo_module.metadata.t = "absent" THEN <<>> ELSE mongo_module.metadata.v)
        \o <<" ", "(">> \o mongo_module._id.course \o <<")">>

\* hash_ with the call's number hashed in
hash_per_call(id_) == sha1_hexdigest(id_ \o <<ToString(calls)>>)

\* hashlib.sha1(id_).hexdigest()
hash_(id_) == sha1_hexdigest(id_)

\* basic_dict once the offering is known: [raised, data]
BuildDict(mongo_module, type_, offering, uuid) ==
    LET id_       == json_dumps_id(mongo_module._id)
        course_id == join(<<"/">>, <<mongo_module._id.org, mongo_module._id.course,
                                     offering.v>>)
        text      == get_searchable_text(mongo_module, type_, uuid)
        thumbnail == get_thumbnail(mongo_module, type_, uuid)
    IN  IF text.raised # "no" THEN [raised |-> text.raised, data |-> <<>>]
        ELSE IF thumbnail.raised # "no" THEN [raised |-> thumbnail.raised, data |-> <<>>]
        ELSE [raised |-> "no",
              data   |-> [id              |-> Str(id_),
                          hash            |-> Str(hash_(id_)),
                          display_name    |-> Unicode(DisplayName(mongo_module)),
                          course_id       |-> Unicode(course_id),
                          searchable_text |-> text.value,
                          thumbnail       |-> thumbnail.value,
                          type_hash       |-> Str(sha1_hexdigest(course_id))]]

\* Only the transcript path calls uuid_from_video_module.
UuidCalls(mongo_module, type_) ==
    IF type_ = "transcript" THEN uuid_from_video_module(mongo_module)
    ELSE {[raised |-> "no", value |-> False]}

\* The ways basic_dict(mongo_module, type_) can end:
\* [raised, data, cache (MONGO_COURSE_CACHE after the call), lookup (whether
\* the course element was looked up in the store), found (whether the
\* lookup found it)]
basic_dict(mongo_module, type_) ==
    LET course == mongo_module._id.course
        miss   == CacheMiss(course)
        found  == course_name_from_mongo_module(mongo_module)
        cache  == IF miss THEN [MONGO_COURSE_CACHE EXCEPT ![course] = found.value]
                  ELSE MONGO_COURSE_CACHE
    IN  IF miss /\ found.raised # "no"
        THEN {[raised |-> found.raised, data |-> <<>>,
               cache |-> MONGO_COURSE_CACHE, lookup |-> TRUE, found |-> FALSE]}
        ELSE {[raised |-> d.raised, data |-> d.data, cache |-> cache, lookup |-> miss,
               found |-> miss] :
                 d \in {BuildDict(mongo_module, type_, cache[course], uuid) :
                           uuid \in UuidCalls(mongo_module, type_)}}

-----------------------------------------------------------------------------
(* flaky_request                                                           *)

MaxAttempts == 3
DefaultAttempts == 2

Response(k) == [t |-> "Response", v |-> <<"attempt", k>>]

NoFrame ==
    [status |-> "none", caller |-> "none", method |-> "none", given |-> FALSE,
     attempts |-> 0, response |-> None, log |-> <<>>, index |-> "none", data |-> <<>>]

\* The frame of flaky_request(method, url, **kwargs) as the loop begins:
\* response = None, attempts = kwargs.get("attempts", 2)
Frame(caller, method, given, attempts, index, data) ==
    [status |-> "running", caller |-> caller, method |-> method, given |-> given,
     attempts |-> IF given THEN attempts ELSE DefaultAttempts,
     response |-> None, log |-> <<>>, index |-> index, data |-> data]

\* How request(url, **kwargs) can end.  kwargs still holds "attempts" when
\* it was given, and a request function that does not take that keyword
\* raises TypeError.
Outcomes(frame) ==
    {"Response", "RequestException"} \cup (IF frame.given THEN {"TypeError"} ELSE {})

\* The engine after storing data under index/type_hash/hash: a document
\* with the same index, type and id is replaced.
Stored(index, data) ==
    {e \in engine : ~(e.index = index /\ e.type = data.type_hash.v /\ e.id = data.hash.v)}
        \cup {[index |-> index, type |-> data.type_hash.v, id |-> data.hash.v,
               source |-> data]}

\* What ends a call of index_course.  The log keeps the engine's content
\* and whether every document submitted in the call was stored.
EndCall(how, exc) ==
    /\ ended' = [how |-> how, exc |-> exc]
    /\ run_log' = Append(run_log,
                     [how |-> how, exc |-> exc, engine |-> engine,
                      stored |-> \A item \in submitted :
                                    \E w \in writes : w.call = calls /\ w.item = item])

\* LoopContinues without the break
LoopContinuesNoBreak(frame) == Len(frame.log) < frame.attempts

\* "for _ in range(attempts)" with its break: another pass is made while
\* passes are left and no request has got a response
LoopContinues(frame) ==
    Len(frame.log) < frame.attempts /\ frame.response.t = "none"

\* One pass of the for loop: the request is made; a response ends the loop
\* (break), a RequestException is passed over, anything else is raised.
flaky_attempt ==
    /\ pc = "request"
    /\ fr.status = "running"
    /\ LoopContinues(fr)
    /\ \E outcome \in Outcomes(fr) :
          LET k == Len(fr.log) + 1
          IN  /\ fr' = [fr EXCEPT !.log = Append(@, outcome),
                                  !.response = IF outcome = "Response" THEN Response(k) ELSE @,
                                  !.status = IF outcome = "TypeError" THEN "raised" ELSE @]
              /\ IF outcome = "Response" /\ fr.caller = "index_data"
                 THEN /\ engine' = Stored(fr.index, fr.data)
                      /\ writes' = writes \cup
                             {[call |-> calls, item |-> cursor[counter],
                               index |-> fr.index, data |-> fr.data]}
                 ELSE UNCHANGED <<engine, writes>>
              /\ IF outcome = "TypeError"
                 THEN /\ flaky_ret' = [how |-> "raised", exc |-> "TypeError", value |-> None]
                      /\ pc' = "idle"
                 ELSE UNCHANGED <<flaky_ret, pc>>
    /\ UNCHANGED <<storeVars, indexVars, calls, uuidVars, queryVars>>

\* After the loop: "if response is None: return None else: return response".
\* index_course takes .content of what index_data returns.
flaky_return ==
    /\ pc = "request"
    /\ fr.status = "running"
    /\ ~LoopContinues(fr)
    /\ fr' = [fr EXCEPT !.status = "returned"]
    /\ flaky_ret' = [how |-> "returned", exc |-> "no",
                     value |-> IF fr.response.t = "none" THEN None ELSE fr.response]
    /\ pc' = IF fr.caller = "index_data" /\ fr.response.t # "none" THEN "loop" ELSE "idle"
    /\ IF fr.caller = "index_data" /\ fr.response.t = "none"
       THEN /\ EndCall("raised", "AttributeError")
            /\ UNCHANGED <<MONGO_COURSE_CACHE, cursor, counter, submitted, built, lookups>>
       ELSE UNCHANGED indexVars
    /\ UNCHANGED <<storeVars, engine, writes, calls, uuidVars, queryVars>>

-----------------------------------------------------------------------------
(* ElasticDatabase.index_data and MongoIndexer.index_course                *)

MaxModules == 2
MaxCalls == 2

\* module_collection.find({"_id.course": course})
find_modules_for_course(course) ==
    SelectSeq(module_collection, LAMBDA m : m._id.course = course)

\* item["_id"]["category"].lower().strip()
Category(item) == strip(lower(item._id.category))

\* Dispatch with the two indexes exchanged
DispatchSwapped(category) ==
    IF category = <<"v", "i", "d", "e", "o">>
    THEN [type_ |-> "transcript", index |-> "problem-index"]
    ELSE IF category = <<"p", "r", "o", "b", "l", "e", "m">>
    THEN [type_ |-> "problem", index |-> "transcript-index"]
    ELSE [type_ |-> "continue", index |-> ""]

\* The if/elif/else of the loop body: the type_ passed to basic_dict and the
\* index, or "continue"
Dispatch(category) ==
    IF category = <<"v", "i", "d", "e", "o">>
    THEN [type_ |-> "transcript", index |-> "transcript-index"]
    ELSE IF category = <<"p", "r", "o", "b", "l", "e", "m">>
    THEN [type_ |-> "problem", index |-> "problem-index"]
    ELSE [type_ |-> "continue", index |-> ""]

\* filter(None, data.values()) == data.values()
AllValuesTrue(data) == \A f \in DOMAIN data : Truthy(data[f])

\* es_instance.index_data(index, data, data["type_hash"], data["hash"]):
\* flaky_request("post", full_url, data=json.dumps(data))
index_data(index, data) == Frame("index_data", "post", FALSE, 0, index, data)

index_course(course) ==
    /\ pc = "idle"
    /\ calls < MaxCalls
    /\ calls' = calls + 1
    /\ cursor' = find_modules_for_course(course)
    /\ counter' = 0
    /\ submitted' = {}
    /\ ended' = [how |-> "running", exc |-> "no"]
    /\ pc' = "loop"
    /\ UNCHANGED <<storeVars, MONGO_COURSE_CACHE, built, lookups, run_log,
                   requestVars, uuidVars, queryVars>>

\* One pass of "for _ in range(cursor.count())", up to the call of index_data
index_course_item ==
    /\ pc = "loop"
    /\ counter < Len(cursor)
    /\ counter' = counter + 1
    /\ LET item == cursor[counter + 1]
           to   == Dispatch(Category(item))
       IN  IF to.type_ = "continue"
           THEN UNCHANGED <<pc, MONGO_COURSE_CACHE, ended, submitted, built, lookups,
                            run_log, fr>>
           ELSE \E r \in basic_dict(item, to.type_) :
                  /\ built' = built \cup {item}
                  /\ MONGO_COURSE_CACHE' = r.cache
                  /\ lookups' = IF r.lookup
                                THEN [lookups EXCEPT ![item._id.course] =
                                         Append(@, [item |-> item, found |-> r.found])]
                                ELSE lookups
                  /\ IF r.raised # "no"
                     THEN /\ pc' = "idle"
                          /\ EndCall("raised", r.raised)
                          /\ UNCHANGED <<submitted, fr>>
                     ELSE IF AllValuesTrue(r.data)
                     THEN /\ pc' = "request"
                          /\ fr' = index_data(to.index, r.data)
                          /\ submitted' = submitted \cup {item}
                          /\ UNCHANGED <<ended, run_log>>
                     ELSE UNCHANGED <<pc, ended, submitted, run_log, fr>>
    /\ UNCHANGED <<storeVars, cursor, engine, flaky_ret, writes, calls, uuidVars,
                   queryVars>>

\* The loop is over: index_course returns
index_course_return ==
    /\ pc = "loop"
    /\ counter = Len(cursor)
    /\ pc' = "idle"
    /\ EndCall("returned", "no")
    /\ UNCHANGED <<storeVars, MONGO_COURSE_CACHE, cursor, counter, submitted, built,
                   lookups, requestVars, calls, uuidVars,
                   queryVars>>

-----------------------------------------------------------------------------
(* The indexer: a process that calls index_course on a store it does not   *)
(* change.                                                                 *)

NoRepeat(q) == \A a, b \in 1..Len(q) : a # b => q[a] # q[b]

\* The course element, when the store has one, and at most MaxModules
\* other modules in any order
Collections ==
    {e \o q : e \in {<<>>} \cup {<<c>> : c \in CourseElements},
              q \in {d \in SeqsUpTo(ContentModules, MaxModules) : NoRepeat(d)}}

\* uuid_from_video_module has not been called
Pending == [raised |-> "pending", value |-> None]

IdleUuid ==
    /\ video_module = Module(<<>>, <<>>, Absent, Absent)
    /\ uuid_entries = <<>>
    /\ uuid_ret = Pending

Init ==
    /\ module_collection \in Collections
    /\ MONGO_COURSE_CACHE = [c \in Courses |-> Absent]
    /\ engine = {}
    /\ pc = "idle"
    /\ cursor = <<>>
    /\ counter = 0
    /\ ended = [how |-> "none", exc |-> "no"]
    /\ fr = NoFrame
    /\ flaky_ret = [how |-> "none", exc |-> "no", value |-> None]
    /\ calls = 0
    /\ writes = {}
    /\ submitted = {}
    /\ built = {}
    /\ lookups = [c \in Courses |-> <<>>]
    /\ run_log = <<>>
    /\ IdleUuid
    /\ IdleQuery

Next ==
    \/ \E course \in Courses : index_course(course)
    \/ index_course_item
    \/ index_course_return
    \/ flaky_attempt
    \/ flaky_return

Spec == Init /\ [][Next]_vars

-----------------------------------------------------------------------------
(* flaky_request called on its own, with and without the attempts keyword  *)

Methods == {"post", "delete", "get"}

flaky_request(method, given, attempts) ==
    /\ pc = "idle"
    /\ calls < MaxCalls
    /\ calls' = calls + 1
    /\ fr' = Frame("flaky_request", method, given, attempts, "none", <<>>)
    /\ pc' = "request"
    /\ UNCHANGED <<storeVars, indexVars, engine, flaky_ret, writes, uuidVars,
                   queryVars>>

InitFlaky ==
    /\ module_collection = <<>>
    /\ MONGO_COURSE_CACHE = [c \in Courses |-> Absent]
    /\ engine = {}
    /\ pc = "idle"
    /\ cursor = <<>>
    /\ counter = 0
    /\ ended = [how |-> "none", exc |-> "no"]
    /\ fr = NoFrame
    /\ flaky_ret = [how |-> "none", exc |-> "no", value |-> None]
    /\ calls = 0
    /\ writes = {}
    /\ submitted = {}
    /\ built = {}
    /\ lookups = [c \in Courses |-> <<>>]
    /\ run_log = <<>>
    /\ IdleUuid
    /\ IdleQuery

NextFlaky ==
    \/ \E method \in Methods, given \in BOOLEAN, attempts \in 0..MaxAttempts :
          flaky_request(method, given, attempts)
    \/ flaky_attempt
    \/ flaky_return

SpecFlaky == InitFlaky /\ [][NextFlaky]_vars

-----------------------------------------------------------------------------
(* uuid_from_video_module applied to data written from speed:identifier    *)
(* pairs                                                                   *)

MaxEntries == 2

Speeds == {<<"0", ".", "7", "5">>, <<"1", ".", "0">>, <<"1", ".", "2", "5">>, <<"1", "1", ".", "0">>}
Identifiers == {<<"a", "b", "c">>, <<"x", "y", "z">>, <<"-", "g", "K">>}

\* "speed:identifier,speed:identifier,..."
DataOf(entries) ==
    join(<<",">>, [k \in 1..Len(entries) |-> entries[k][1] \o <<":">> \o entries[k][2]])

InitUuid ==
    /\ uuid_entries \in SeqsUpTo(Speeds \X Identifiers, MaxEntries)
    /\ \E nested \in BOOLEAN :
          video_module = Module(<<"v", "i", "d", "e", "o">>, <<"v", "1">>,
                                IF nested THEN Dict(DataOf(uuid_entries))
                                ELSE Unicode(DataOf(uuid_entries)),
                                Absent)
    /\ uuid_ret = Pending
    /\ module_collection = <<>>
    /\ MONGO_COURSE_CACHE = [c \in Courses |-> Absent]
    /\ engine = {}
    /\ pc = "idle"
    /\ cursor = <<>>
    /\ counter = 0
    /\ ended = [how |-> "none", exc |-> "no"]
    /\ fr = NoFrame
    /\ flaky_ret = [how |-> "none", exc |-> "no", value |-> None]
    /\ calls = 0
    /\ writes = {}
    /\ submitted = {}
    /\ built = {}
    /\ lookups = [c \in Courses |-> <<>>]
    /\ run_log = <<>>
    /\ IdleQuery

\* uuid = self.uuid_from_video_module(video_module)
uuid_call ==
    /\ uuid_ret = Pending
    /\ uuid_ret' \in uuid_from_video_module(video_module)
    /\ UNCHANGED <<video_module, uuid_entries, storeVars, indexVars, requestVars,
                   pc, calls, queryVars>>

NextUuid == uuid_call

SpecUuid == InitUuid /\ [][NextUuid]_vars

-----------------------------------------------------------------------------
(* models.py: the snippet engine (_snippet_generator, _match,              *)
(* _match_highlighter).                                                    *)

\* s.split(): the words between runs of whitespace, none of them empty
split_words(s) ==
    LET starts == {i \in 1..Len(s) : s[i] \notin Whitespace
                                        /\ (i = 1 \/ s[i - 1] \in Whitespace)}
        nth(n) == CHOOSE i \in starts : Cardinality({m \in starts : m < i}) = n - 1
        end(i) == CHOOSE j \in i..Len(s) :
                      /\ j = Len(s) \/ s[j + 1] \in Whitespace
                      /\ \A m \in i..j : s[m] \notin Whitespace
    IN  [n \in 1..Cardinality(starts) |-> SubSeq(s, nth(n), end(nth(n)))]

\* string.punctuation (its grave accent is left out: no text here has one)
punctuation ==
    {"!", "\"", "#", "$", "%", "&", "'", "(", ")", "*", "+", ",", "-", ".", "/",
     ":", ";", "<", "=", ">", "?", "@", "[", "\\", "]", "^", "_", "{", "|", "}",
     "~"}

\* word.translate(None, string.punctuation), word.translate(punctuation_map)
depunctuation(word) == SelectSeq(word, LAMBDA c : c \notin punctuation)

SentenceEnd == {".", "!", "?"}

\* The sentences of s: a sentence ends with a full stop, question or
\* exclamation mark that whitespace or the end of s follows, and begins at
\* the first character after the last end that is not whitespace; what
\* follows the last end is a sentence when it has a word
Tokenize(s) ==
    LET ends == {k \in 1..Len(s) : s[k] \in SentenceEnd
                                      /\ (k = Len(s) \/ s[k + 1] \in Whitespace)}
        last == IF ends = {} THEN 0 ELSE CHOOSE k \in ends : \A m \in ends : m <= k
        nth(n) == CHOOSE k \in ends : Cardinality({m \in ends : m < k}) = n - 1
        begin(from, to) == CHOOSE i \in from..to :
                               /\ s[i] \notin Whitespace
                               /\ \A m \in from..(i - 1) : s[m] \in Whitespace
        prev(n) == IF n = 1 THEN 0 ELSE nth(n - 1)
        whole == [n \in 1..Cardinality(ends) |->
                     SubSeq(s, begin(prev(n) + 1, nth(n)), nth(n))]
        rest == {i \in (last + 1)..Len(s) : s[i] \notin Whitespace}
    IN  IF rest # {}
        THEN Append(whole, SubSeq(s, CHOOSE i \in rest : \A m \in rest : i <= m,
                                     CHOOSE i \in rest : \A m \in rest : m <= i))
        ELSE whole

\* punkt.tokenize(transcript): the sentences of a text, each ending with its
\* full stop, question or exclamation mark, without the whitespace between
\* them.  Given anything but a string the tokenizer's regular expression
\* raises TypeError.
punkt_tokenize(transcript) ==
    IF transcript.t \in {"unicode", "str"}
    THEN [raised |-> "no", value |-> Tokenize(transcript.v)]
    ELSE [raised |-> "TypeError", value |-> <<>>]

\* abs(len(words[0]) - len(words[1])) < (len(words[0]) + len(words[1])) / 6,
\* where / on two ints is Python 2's integer division
near_size(words) ==
    LET d == Len(words[1]) - Len(words[2])
    IN  (IF d < 0 THEN -d ELSE d) < (Len(words[1]) + Len(words[2])) \div 6

\* (words[0] in words[1]) or (words[1] in words[0])
contained(words) == Contains(words[1], words[2]) \/ Contains(words[2], words[1])

_match(words) == contained(words) /\ near_size(words)

\* wrapping[0] + text + wrapping[1], with tag "b" and css_class "highlight"
wrap(text) == <<"<b class=highlight>">> \o text \o <<"</b>">>

\* set(word.lower() for word in query.split())
query_set(query) == {lower(w) : w \in {split_words(query)[k] : k \in 1..Len(split_words(query))}}

RECURSIVE BoldResponse(_, _, _)
BoldResponse(terms, ws, k) ==
    IF k > Len(ws) THEN <<>>
    ELSE (IF \E query_word \in terms : _match(<<query_word, depunctuation(lower(ws[k]))>>)
          THEN wrap(ws[k]) \o <<" ">>
          ELSE ws[k] \o <<" ">>) \o BoldResponse(terms, ws, k + 1)

\* Every word of the response, wrapped when it matches a query word, each
\* followed by one space
_match_highlighter(query, response) ==
    BoldResponse(query_set(query), split_words(response), 1)

DefaultSoftMax == 50
DefaultWordMargin == 25

\* [word.lower() for word in query.split()]
substrings(query) == [k \in 1..Len(split_words(query)) |-> lower(split_words(query)[k])]

\* query_container with the sentence taken as it is written
query_container_cased(sentence, terms) ==
    \E k \in 1..Len(terms) : Contains(terms[k], sentence)

\* any(substring in sentence.lower() for substring in substrings)
query_container(sentence, terms) ==
    \E k \in 1..Len(terms) : Contains(terms[k], lower(sentence))

\* len(response.split()) + len(sentence.split()) < soft_max
UnderSoftMax(response, sentence, soft_max) ==
    Len(split_words(response)) + Len(split_words(sentence)) < soft_max

\* Truncated without the slice
Untruncated(sentence, word_margin) == join(<<" ">>, split_words(sentence))

\* " ".join(sentence.split()[:word_margin])
Truncated(sentence, word_margin) ==
    LET ws == split_words(sentence)
    IN  join(<<" ">>, SubSeq(ws, 1, IF word_margin < Len(ws) THEN word_margin ELSE Len(ws)))

\* The first for loop, from sentence k on: [tripped, response] when it ends
RECURSIVE ScanSentences(_, _, _, _, _, _, _)
ScanSentences(sentences, terms, soft_max, word_margin, k, tripped, response) ==
    IF k > Len(sentences) THEN [tripped |-> tripped, response |-> response]
    ELSE IF ~tripped
    THEN (IF query_container(sentences[k], terms)
          THEN ScanSentences(sentences, terms, soft_max, word_margin, k + 1, TRUE,
                             response \o sentences[k])
          ELSE ScanSentences(sentences, terms, soft_max, word_margin, k + 1, FALSE,
                             response))
    ELSE IF UnderSoftMax(response, sentences[k], soft_max)
    THEN ScanSentences(sentences, terms, soft_max, word_margin, k + 1, TRUE,
                       response \o <<" ">> \o sentences[k])
    ELSE [tripped  |-> TRUE,
          response |-> response \o <<" ">> \o Truncated(sentences[k], word_margin)]

\* The second for loop, from sentence k on: the response when it ends
RECURSIVE FromFirstSentence(_, _, _, _, _)
FromFirstSentence(sentences, soft_max, word_margin, k, response) ==
    IF k > Len(sentences) THEN response
    ELSE IF UnderSoftMax(response, sentences[k], soft_max)
    THEN FromFirstSentence(sentences, soft_max, word_margin, k + 1,
                           response \o <<" ">> \o sentences[k])
    ELSE response \o <<" ">> \o Truncated(sentences[k], word_margin)

\* The fallback left out
NoFallback(tripped) == FALSE

\* if tripped is False
PhoneticMatch(tripped) == tripped = FALSE

\* _snippet_generator(transcript, query, soft_max, word_margin, bold):
\* [raised, response (as it is before "if bold"), value (what is returned)]
_snippet_generator(transcript, query, soft_max, word_margin, bold) ==
    LET sentences == punkt_tokenize(transcript)
        first     == ScanSentences(sentences.value, substrings(query), soft_max,
                                   word_margin, 1, FALSE, <<>>)
        response  == IF PhoneticMatch(first.tripped)
                     THEN FromFirstSentence(sentences.value, soft_max, word_margin, 1,
                                            first.response)
                     ELSE first.response
    IN  IF sentences.raised # "no"
        THEN [raised |-> sentences.raised, response |-> <<>>, value |-> <<>>]
        ELSE [raised   |-> "no",
              response |-> response,
              value    |-> IF bold THEN _match_highlighter(query, response) ELSE response]

-----------------------------------------------------------------------------
(* _snippet_generator called on texts written from whole sentences         *)

MaxSentences == 3

Sentences == {
    <<"I", "n", "t", "r", "o", " ", "s", "e", "n", "t", "e", "n", "c", "e", ".">>,
    <<"H", "i", "s", "t", "o", "r", "y", " ", "b", "e", "g", "i", "n", "s", " ", "h", "e", "r", "e", ".">>,
    <<"A", " ", "h", "i", "d", "d", "e", "n", " ", "h", "i", "s", "t", "o", "r", "y", " ", "i", "s", " ", "t", "o", "l", "d", ".">>,
    <<"M", "o", "r", "e", " ", "d", "e", "t", "a", "i", "l", "s", " ", "f", "o", "l", "l", "o", "w", " ", "w", "i", "t", "h", " ", "e", "x", "t", "r", "a", " ", "w", "o", "r", "d", "s", ".">> }

Queries == {
    <<>>,
    <<"h", "i", "s", "t", "o", "r", "y">>,
    <<"H", "i", "s", "t", "o", "r", "i", "e", "s">>,
    <<"z", "z", "z">>,
    <<"i", "s", " ", " ", "h", "i", "d", "d", "e", "n">> }

\* soft_max and word_margin, of the size of the sentences above
Limits == {
    [soft_max |-> 7, word_margin |-> 2],
    [soft_max |-> 5, word_margin |-> 2],
    [soft_max |-> 3, word_margin |-> 1] }

\* The indexer at rest
IdleIndexer ==
    /\ module_collection = <<>>
    /\ MONGO_COURSE_CACHE = [c \in Courses |-> Absent]
    /\ engine = {}
    /\ pc = "idle"
    /\ cursor = <<>>
    /\ counter = 0
    /\ ended = [how |-> "none", exc |-> "no"]
    /\ fr = NoFrame
    /\ flaky_ret = [how |-> "none", exc |-> "no", value |-> None]
    /\ calls = 0
    /\ writes = {}
    /\ submitted = {}
    /\ built = {}
    /\ lookups = [c \in Courses |-> <<>>]
    /\ run_log = <<>>
    /\ IdleUuid

indexerVars == <<storeVars, indexVars, requestVars, uuidVars, pc, calls>>

InitSnippet ==
    /\ IdleIndexer
    /\ \E sentences \in SeqsUpTo(Sentences, MaxSentences), query \in Queries,
          limits \in Limits, bold \in BOOLEAN :
          snippet = [status |-> "called", sentences |-> sentences,
                     transcript |-> Unicode(join(<<" ">>, sentences)),
                     query |-> query, soft_max |-> limits.soft_max,
                     word_margin |-> limits.word_margin, bold |-> bold]
    /\ matched = Idle
    /\ results = Idle
    /\ wire = Idle
    /\ problem = Idle

\* self.snippets = _snippet_generator(self.data["searchable_text"], query)
snippet_call ==
    /\ snippet.status = "called"
    /\ LET r == _snippet_generator(snippet.transcript, snippet.query, snippet.soft_max,
                                   snippet.word_margin, snippet.bold)
       IN  snippet' = [status |-> "returned", sentences |-> snippet.sentences,
                       transcript |-> snippet.transcript, query |-> snippet.query,
                       soft_max |-> snippet.soft_max, word_margin |-> snippet.word_margin,
                       bold |-> snippet.bold, raised |-> r.raised,
                       response |-> r.response, value |-> r.value]
    /\ UNCHANGED <<indexerVars, matched, results, wire, problem>>

NextSnippet == snippet_call

SpecSnippet == InitSnippet /\ [][NextSnippet]_vars

-----------------------------------------------------------------------------
(* _match and _match_highlighter called on one query term and one word     *)

MaxWordLen == 3

\* The words of at most n letters over a two-letter alphabet, "" included
RECURSIVE WordsUpTo(_)
WordsUpTo(n) ==
    IF n = 0 THEN {<<>>}
    ELSE WordsUpTo(n - 1) \cup
         {Append(w, c) : w \in {x \in WordsUpTo(n - 1) : Len(x) = n - 1},
                         c \in {"a", "b"}}

\* A query term is a piece of query.split(): never empty
Terms == WordsUpTo(MaxWordLen) \ {<<>>}

InitMatch ==
    /\ IdleIndexer
    /\ snippet = Idle /\ results = Idle /\ wire = Idle /\ problem = Idle
    /\ \E term \in Terms, word \in WordsUpTo(MaxWordLen) :
           matched = [status |-> "called", term |-> term, word |-> word]

\* _match((term, word)), and _match_highlighter(term, word), whose loop makes
\* the same call on the one word of its response
match_call ==
    /\ matched.status = "called"
    /\ matched' = [status |-> "returned",
                   term |-> matched.term,
                   word |-> matched.word,
                   result |-> _match(<<matched.term, matched.word>>),
                   bold |-> _match_highlighter(matched.term, matched.word)]
    /\ UNCHANGED <<indexerVars, snippet, results, wire, problem>>

NextMatch == match_call

SpecMatch == InitMatch /\ [][NextMatch]_vars

-----------------------------------------------------------------------------
(* models.py: SearchResults.filter, sort_results and filter_and_sort.      *)
(* An entry is a SearchResult object: oid is its identity (the class       *)
(* defines neither __eq__ nor __hash__, so a set holds objects, not        *)
(* contents), data the hit's _source, a dict from field names to text.     *)

Range(f) == {f[k] : k \in DOMAIN f}

\* The lists that hold each element of S once: list(S) for a set S, whose
\* iteration order is not defined
RECURSIVE ListsOf(_)
ListsOf(S) ==
    IF S = {} THEN {<<>>}
    ELSE UNION {{<<x>> \o q : q \in ListsOf(S \ {x})} : x \in S}

\* strip_punc = lambda s: punc.sub("", s).lower() without the lower()
strip_punc_cased(s) == depunctuation(s)

\* strip_punc = lambda s: punc.sub("", s).lower()
strip_punc(s) == lower(depunctuation(s))

\* entry.data.get(field, "")
data_get(entry, field) ==
    IF field \in DOMAIN entry.data THEN entry.data[field] ELSE <<>>

\* to_filter = lambda value, entry, field: ...
to_filter(value, entry, field) ==
    Contains(strip_punc(value), strip_punc(data_get(entry, field)))

\* SearchResults.filter: the set of the entries that pass to_filter
filter(entries, field, value) ==
    LET given == IF value = None THEN <<>> ELSE value.v
    IN  {entry \in Range(entries) : to_filter(given, entry, field)}

\* An entry is kept only when it passes every filter
full_results_all(entries, filters) ==
    {entry \in Range(entries) :
        \A field \in DOMAIN filters : entry \in filter(entries, field, filters[field])}

\* full_results |= self.filter(field, value), for every item of the filters
full_results(entries, filters) ==
    UNION {filter(entries, field, filters[field]) : field \in DOMAIN filters}

\* search.sorting.sort(entries, sort): the entries in the order the
\* requested sort gives them; the order, ties included, is the routine's
sorting_sort(entries, sort) == ListsOf(Range(entries))

-----------------------------------------------------------------------------
(* A SearchResults object built from a response of at most MaxHits hits,   *)
(* on which filter and filter_and_sort are called                          *)

MaxHits == 3

\* The calls made on one SearchResults object
MaxOps == 1

\* What the _source of a hit may hold
Sources ==
    { [category |-> <<"P", "R", "O", "B", "L", "E", "M", " ", "T", "Y", "P", "E", " ", "A">>, display_name |-> <<"W", "e", "e", "k", " ", "1">>],
      [category |-> <<"V", "i", "d", "e", "o">>, display_name |-> <<"W", "e", "e", "k", "-", "1", ":", " ", "i", "n", "t", "r", "o">>],
      [display_name |-> <<"W", "e", "e", "k", "-", "1", " ", "v", "i", "d", "e", "o", "!">>] }

EmptyDict == [field \in {} |-> None]

\* kwargs.get("filters", {})
DefaultFilters_empty == EmptyDict

\* kwargs.get("filters", {"": ""})
DefaultFilters == [field \in {""} |-> Unicode(<<>>)]

FilterDicts ==
    { DefaultFilters,
      EmptyDict,
      [category |-> Unicode(<<"P", "r", "o", "b", "l", "e", "m">>)],
      [category |-> Unicode(<<"v", "i", "d", "e", "o">>), display_name |-> Unicode(<<"W", "E", "E", "K", "1">>)],
      [display_name |-> Unicode(<<"z", "z", "z">>)] }

FilterFields == {"category", "display_name"}

FilterValues ==
    {None, Unicode(<<"P", "r", "o", "b", "l", "e", "m">>), Unicode(<<"w", "e", "e", "k", " ", "1">>)}

\* kwargs.get("sort", None)
Sorts == {None}

InitResults ==
    /\ IdleIndexer
    /\ snippet = Idle /\ matched = Idle /\ wire = Idle /\ problem = Idle
    /\ \E sources \in SeqsUpTo(Sources, MaxHits), filters \in FilterDicts, sort \in Sorts :
           LET entries == [k \in 1..Len(sources) |-> [oid |-> k, data |-> sources[k]]]
           IN  results = [status |-> "built", entries |-> entries, filters |-> filters,
                          sort |-> sort, op |-> "none", before |-> entries,
                          field |-> "", value |-> None, returned |-> {}, ops |-> 0]

\* results.filter(field, value)
filter_call ==
    /\ results.status = "built" /\ results.ops < MaxOps
    /\ \E field \in FilterFields, value \in FilterValues :
           results' = [results EXCEPT
               !.op = "filter", !.ops = @ + 1, !.before = results.entries,
               !.field = field, !.value = value,
               !.returned = filter(results.entries, field, value)]
    /\ UNCHANGED <<indexerVars, snippet, matched, wire, problem>>

\* results.filter_and_sort(), one of at most limit calls on the object:
\* self.entries = list(full_results), then sort_results()
filter_and_sort_within(limit) ==
    /\ results.status = "built" /\ results.ops < limit
    /\ \E sorted \in UNION {sorting_sort(listed, results.sort) :
                   listed \in ListsOf(full_results(results.entries, results.filters))} :
           results' = [results EXCEPT
               !.op = "filter_and_sort", !.ops = @ + 1, !.before = results.entries,
               !.entries = sorted]
    /\ UNCHANGED <<indexerVars, snippet, matched, wire, problem>>

filter_and_sort == filter_and_sort_within(MaxOps)

NextResults == filter_call \/ filter_and_sort

SpecResults == InitResults /\ [][NextResults]_vars

-----------------------------------------------------------------------------
(* searchable_text_from_problem_data called on problem data written from   *)
(* whole tags                                                              *)

MaxTags == 3

Placeholder == <<"<", "p", ">">> \o Explanation \o <<"<", "/", "p", ">">>

\* What the data of a problem is written from
Pieces ==
    { Placeholder,
      <<"<", "p", ">", "H", "i", "<", "/", "p", ">">>,
      <<"<", "p", ">", "E", "x", "p", "l", "a", "n", "a", "t", "i", "o", "n", "s", "<", "/", "p", ">">>,
      <<"<", "t", "e", "x", "t", ">", "P", "i", "c", "k", " ", "o", "n", "e", "<", "/", "t", "e", "x", "t", ">">>,
      <<"<", "b", ">", "x", "<", "/", "b", ">">> }

\* "".join(pieces)
RECURSIVE concat(_)
concat(pieces) ==
    IF pieces = <<>> THEN <<>> ELSE Head(pieces) \o concat(Tail(pieces))

\* A problem element whose definition holds the data
problem_element(data) == [definition |-> Unicode(data)]

InitProblem ==
    /\ IdleIndexer
    /\ snippet = Idle /\ matched = Idle /\ results = Idle /\ wire = Idle
    /\ \E pieces \in SeqsUpTo(Pieces, MaxTags) :
           problem = [status |-> "called", pieces |-> pieces]

\* searchable_text_from_problem_data(mongo_element)
problem_call ==
    /\ problem.status = "called"
    /\ LET ret == searchable_text_from_problem_data(problem_element(concat(problem.pieces)))
       IN  problem' = [status |-> "returned", pieces |-> problem.pieces,
                       raised |-> ret.raised, value |-> ret.value]
    /\ UNCHANGED <<indexerVars, snippet, matched, results, wire>>

NextProblem == problem_call

SpecProblem == InitProblem /\ [][NextProblem]_vars

-----------------------------------------------------------------------------
(* json.dumps of a document and json.loads of an object whose values are   *)
(* strings and lists of strings, which is what a document is               *)

\* An element of a list value is a whole string: its characters
Chars(whole) == IF whole = "" THEN <<>> ELSE <<whole>>

Whole(chars) == IF chars = <<>> THEN "" ELSE chars[1]

\* json.dumps of a string or of a list of strings
JsonValue(x) ==
    IF x.t = "list"
    THEN <<"[">> \o join(<<",", " ">>, [k \in 1..Len(x.v) |-> JsonString(Chars(x.v[k]))])
             \o <<"]">>
    ELSE JsonString(x.v)

\* The keys of a document as json.dumps writes them
KeyName ==
    [id |-> <<"i", "d">>, hash |-> <<"h", "a", "s", "h">>, display_name |-> <<"d", "i", "s", "p", "l", "a", "y", "_", "n", "a", "m", "e">>,
     course_id |-> <<"c", "o", "u", "r", "s", "e", "_", "i", "d">>, searchable_text |-> <<"s", "e", "a", "r", "c", "h", "a", "b", "l", "e", "_", "t", "e", "x", "t">>,
     thumbnail |-> <<"t", "h", "u", "m", "b", "n", "a", "i", "l">>, type_hash |-> <<"t", "y", "p", "e", "_", "h", "a", "s", "h">>]

\* The order in which a dict of these seven keys gives its items: the
\* order of the literal or its reverse
KeyOrders ==
    { <<"id", "hash", "display_name", "course_id", "searchable_text", "thumbnail",
        "type_hash">>,
      <<"type_hash", "thumbnail", "searchable_text", "course_id", "display_name", "hash",
        "id">> }

\* json.dumps(data), the items in the given order
json_dumps(data, order) ==
    <<"{">> \o join(<<",", " ">>,
                    [k \in 1..Len(order) |->
                        JsonString(KeyName[order[k]]) \o <<":", " ">>
                            \o JsonValue(data[order[k]])])
        \o <<"}">>

\* The number of backslashes that end right before s[k]
BackslashesBefore(s, k) ==
    Cardinality({r \in 1..(k - 1) : \A j \in (k - r)..(k - 1) : s[j] = "\\"})

\* The quotes that open or close a string: those no backslash escapes
Quotes(s) ==
    {k \in 1..Len(s) : s[k] = "\"" /\ BackslashesBefore(s, k) % 2 = 0}

\* The n-th number of a set of numbers, in increasing order
NthOf(P, n) == CHOOSE p \in P : Cardinality({q \in P : q < p}) = n - 1

\* The characters of a string from what stands between its quotes: a
\* backslash gives the character after it, n being the newline.  The text
\* is read half by half, a backslash staying with its character.
RECURSIVE JsonUnescape(_)
JsonUnescape(raw) ==
    IF Len(raw) <= 1 THEN raw
    ELSE IF Len(raw) = 2
    THEN (IF raw[1] = "\\" THEN <<(IF raw[2] = "n" THEN "\n" ELSE raw[2])>> ELSE raw)
    ELSE LET half == Len(raw) \div 2
             cut  == IF BackslashesBefore(raw, half + 1) % 2 = 1 THEN half + 1 ELSE half
         IN  JsonUnescape(SubSeq(raw, 1, cut)) \o JsonUnescape(SubSeq(raw, cut + 1, Len(raw)))

\* json.loads(s): a dict from each key to its value, every string unicode.
\* A string followed by a colon is a key; its value is the string after
\* it or, after "[", the list of the strings up to the next key.
json_loads(s) ==
    LET quotes   == Quotes(s)
        count    == Cardinality(quotes) \div 2
        open(i)  == NthOf(quotes, 2 * i - 1)
        close(i) == NthOf(quotes, 2 * i)
        token(i) == JsonUnescape(SubSeq(s, open(i) + 1, close(i) - 1))
        keys     == {i \in 1..count : close(i) < Len(s) /\ s[close(i) + 1] = ":"}
        last(i)  == LET later == {j \in keys : j > i}
                    IN  IF later = {} THEN count
                        ELSE (CHOOSE j \in later : \A m \in later : j <= m) - 1
        value(i) == IF s[close(i) + 3] = "["
                    THEN List([n \in 1..(last(i) - i) |-> Whole(token(i + n))])
                    ELSE Unicode(token(i + 1))
    IN  [key \in {token(i) : i \in keys} |->
            value(CHOOSE i \in keys :
                      token(i) = key /\ \A j \in keys : token(j) = key => j <= i)]

-----------------------------------------------------------------------------
(* MongoIndexer.bulk_index_item, and models.py: SearchResults.__init__,    *)
(* SearchResult.__init__ and _return_jump_to_url                           *)

\* json.dumps({"index": {"_index": index, "_type": ..., "_id": ...}})
action_line(index, data) ==
    <<"{", "\"", "i", "n", "d", "e", "x", "\"", ":", " ", "{", "\"", "_", "i", "n", "d", "e", "x", "\"", ":", " ">> \o JsonString(<<index>>)
        \o <<",", " ", "\"", "_", "t", "y", "p", "e", "\"", ":", " ">> \o JsonString(data.type_hash.v)
        \o <<",", " ", "\"", "_", "i", "d", "\"", ":", " ">> \o JsonString(data.hash.v) \o <<"}", "}">>

\* bulk_index_item with json.dumps(data) left out
bulk_index_item_action_only(index, data, order) ==
    action_line(index, data) \o <<"\n">>

bulk_index_item(index, data, order) ==
    action_line(index, data) \o <<"\n">> \o json_dumps(data, order) \o <<"\n">>

\* The n-th line of a text in which every line ends with a newline
Line(text, n) ==
    LET breaks == {k \in 1..Len(text) : text[k] = "\n"}
        from   == IF n = 1 THEN 1 ELSE NthOf(breaks, n - 1) + 1
    IN  SubSeq(text, from, NthOf(breaks, n) - 1)

\* str(Location(tag, org, course, category, name)): the location the five
\* fields name
Location(tag, org, course, category, name) ==
    <<[tag |-> tag, org |-> org, course |-> course, category |-> category, name |-> name]>>

\* _return_jump_to_url(entry)
_return_jump_to_url(entry) ==
    LET id       == json_loads(entry[<<"i", "d">>].v)
        location == Location(id[<<"t", "a", "g">>].v, id[<<"o", "r", "g">>].v, id[<<"c", "o", "u", "r", "s", "e">>].v,
                             id[<<"c", "a", "t", "e", "g", "o", "r", "y">>].v, id[<<"n", "a", "m", "e">>].v)
    IN  <<"/courses", "/">> \o entry[<<"c", "o", "u", "r", "s", "e", "_", "i", "d">>].v \o <<"/jump_to/">> \o location

\* " ".join(kwargs.get("s", "*.*")): s is the list of the request's search
\* terms; without it the default string is joined character by character
query_of(s) ==
    IF s = Absent THEN join(<<" ">>, <<<<"*">>, <<".">>, <<"*">>>>)
    ELSE join(<<" ">>, s.v)

\* SearchResult.__init__ once _snippet_generator has ended: [raised, value]
SearchResultWith(entry, score, snippets) ==
    IF entry[<<"t", "h", "u", "m", "b", "n", "a", "i", "l">>].t \notin {"unicode", "str"}
    THEN [raised |-> "AttributeError", value |-> None]
    ELSE IF snippets.raised # "no"
    THEN [raised |-> snippets.raised, value |-> None]
    ELSE [raised |-> "no",
          value  |-> [data      |-> entry,
                      url       |-> _return_jump_to_url(entry),
                      score     |-> score,
                      thumbnail |-> IF StartsAt(HTTP, entry[<<"t", "h", "u", "m", "b", "n", "a", "i", "l">>].v, 1)
                                    THEN entry[<<"t", "h", "u", "m", "b", "n", "a", "i", "l">>].v
                                    ELSE <<"data:image/jpg;base64,">>
                                             \o entry[<<"t", "h", "u", "m", "b", "n", "a", "i", "l">>].v,
                      snippets  |-> snippets.value]]

\* SearchResult(entry, score, query): [raised, value]
SearchResult(entry, score, query) ==
    SearchResultWith(entry, score,
                     _snippet_generator(entry[<<"s", "e", "a", "r", "c", "h", "a", "b", "l", "e", "_", "t", "e", "x", "t">>], query,
                                        DefaultSoftMax, DefaultWordMargin, TRUE))

\* SearchResults.__init__ once its one entry is built or has raised:
\* [raised, entries, query, filters]
SearchResultsWith(entry, query) ==
    [raised  |-> entry.raised,
     entries |-> IF entry.raised # "no" THEN <<>> ELSE <<entry.value>>,
     query   |-> query,
     filters |-> DefaultFilters]

\* SearchResults(response, s=...) for a response of one hit
SearchResults_init(hit, s) ==
    SearchResultsWith(SearchResult(json_loads(hit._source), hit._score, query_of(s)),
                      query_of(s))

-----------------------------------------------------------------------------
(* A document from basic_dict to bulk_index_item, to the engine and back   *)
(* as the one hit of a response that SearchResults is built from           *)

problem_quoted == Module(<<"p", "r", "o", "b", "l", "e", "m">>, <<"p", "7">>, Unicode(<<"<", "p", ">", "S", "a", "y", " ", "\"", "h", "i", "\"", ":", " ", "a", ".", " ", "T", "h", "e", "n", " ", "g", "o", ".", "<", "/", "p", ">">>), Unicode(<<"Q", "u", "i", "z", " ", "\"", "2", "\\", "3", "\"">>))

\* The course element and one module
WireCollections ==
    {<<c, m>> : c \in CourseElements,
                m \in {video_xyz, video_single, video_no_speed, video_no_chunk, video_bad_json,
                       problem_hi, problem_blank, problem_quoted, html_page}}

\* kwargs["s"], when the request has it
SearchTerms == {Absent, List(<<<<"h", "e", "l", "l", "o">>>>), List(<<<<"s", "a", "y">>, <<"H", "I">>>>)}

Scores == {1, 2}

InitWire ==
    /\ module_collection \in WireCollections
    /\ MONGO_COURSE_CACHE = [c \in Courses |-> Absent]
    /\ engine = {}
    /\ pc = "idle"
    /\ cursor = <<>>
    /\ counter = 0
    /\ ended = [how |-> "none", exc |-> "no"]
    /\ fr = NoFrame
    /\ flaky_ret = [how |-> "none", exc |-> "no", value |-> None]
    /\ calls = 0
    /\ writes = {}
    /\ submitted = {}
    /\ built = {}
    /\ lookups = [c \in Courses |-> <<>>]
    /\ run_log = <<>>
    /\ IdleUuid
    /\ snippet = Idle /\ matched = Idle /\ results = Idle /\ problem = Idle
    /\ \E s \in SearchTerms, order \in KeyOrders :
           wire = [status |-> "start", s |-> s, order |-> order]

\* basic_dict for an item of the store, then bulk_index_item for the
\* document, with the index and type_ of index_course
wire_index ==
    /\ wire.status = "start"
    /\ \E k \in 1..Len(module_collection) :
           LET item == module_collection[k]
               to   == Dispatch(Category(item))
           IN  /\ to.type_ # "continue"
               /\ \E d \in basic_dict(item, to.type_) :
                      /\ MONGO_COURSE_CACHE' = d.cache
                      /\ wire' =
                             IF d.raised # "no"
                             THEN [status |-> "raised", at |-> "basic_dict",
                                   exc |-> d.raised, s |-> wire.s, order |-> wire.order,
                                   item |-> item]
                             ELSE [status |-> "sent", s |-> wire.s, order |-> wire.order,
                                   item |-> item, data |-> d.data,
                                   text |-> bulk_index_item(to.index, d.data, wire.order)]
    /\ UNCHANGED <<storeVars, cursor, counter, ended, submitted, built, lookups, run_log,
                   requestVars, uuidVars, pc, calls, snippet, matched, results, problem>>

\* wire once SearchResults(...) has ended
Searched(w, made) ==
    IF made.raised # "no"
    THEN [status |-> "raised", at |-> "SearchResults", exc |-> made.raised,
          s |-> w.s, order |-> w.order, item |-> w.item, data |-> w.data,
          text |-> w.text]
    ELSE [status |-> "built", s |-> w.s, order |-> w.order, item |-> w.item,
          data |-> w.data, text |-> w.text, entries |-> made.entries,
          query |-> made.query]

\* The engine answers a search with the data line as the _source of one
\* hit, and SearchResults is built from the response
wire_search ==
    /\ wire.status = "sent"
    /\ \E score \in Scores :
           wire' = Searched(wire,
                            SearchResults_init([_score |-> score,
                                                _source |-> Line(wire.text, 2)], wire.s))
    /\ UNCHANGED <<indexerVars, snippet, matched, results, problem>>

NextWire == wire_index \/ wire_search

SpecWire == InitWire /\ [][NextWire]_vars

-----------------------------------------------------------------------------
(* searchable_text_from_problem_data called on one paragraph written from  *)
(* runs of characters and tags                                             *)

MaxRuns == 3

\* What the body of the paragraph is written from
Runs == { <<"a", "a">>, <<"a", "a", "a">>, <<"b", "b", "b", "b", "b">>, <<"<", "i", ">">>, <<"c">> }

InitRuns ==
    /\ IdleIndexer
    /\ snippet = Idle /\ matched = Idle /\ results = Idle /\ wire = Idle
    /\ \E runs \in SeqsUpTo(Runs, MaxRuns) :
           problem = [status |-> "called",
                      pieces |-> <<<<"<", "p", ">">>>> \o runs \o <<<<"<", "/", "p", ">">>>>]

SpecRuns == InitRuns /\ [][NextProblem]_vars

-----------------------------------------------------------------------------
(* The thumbnail of a video from thumbnail_from_video_module to the        *)
(* engine and back to SearchResult                                         *)

\* A video of the youku player that has a transcript, and one that has not
video_youku      == Module(<<"v", "i", "d", "e", "o">>, <<"v", "9">>, Unicode(<<"1", ".", "0", ":", "x", "y", "z", ",", "p", "l", "a", "y", "e", "r", ".", "y", "o", "u", "k", "u", ".", "c", "o", "m">>), Unicode(<<"I", "n", "t", "r", "o">>))
video_youku_demo == Module(<<"v", "i", "d", "e", "o">>, <<"v", "1", "0">>, Unicode(<<"p", "l", "a", "y", "e", "r", ".", "y", "o", "u", "k", "u", ".", "c", "o", "m">>), Absent)

\* The course element and one module
ThumbCollections ==
    {<<c, m>> : c \in CourseElements,
                m \in {video_xyz, video_bad_json, video_single, video_no_chunk,
                       video_youku, video_youku_demo, problem_hi}}

InitThumb ==
    /\ module_collection \in ThumbCollections
    /\ MONGO_COURSE_CACHE = [c \in Courses |-> Absent]
    /\ engine = {}
    /\ pc = "idle"
    /\ cursor = <<>>
    /\ counter = 0
    /\ ended = [how |-> "none", exc |-> "no"]
    /\ fr = NoFrame
    /\ flaky_ret = [how |-> "none", exc |-> "no", value |-> None]
    /\ calls = 0
    /\ writes = {}
    /\ submitted = {}
    /\ built = {}
    /\ lookups = [c \in Courses |-> <<>>]
    /\ run_log = <<>>
    /\ IdleUuid
    /\ snippet = Idle /\ matched = Idle /\ results = Idle /\ problem = Idle
    /\ \E s \in SearchTerms, order \in KeyOrders :
           wire = [status |-> "start", s |-> s, order |-> order]

SpecThumb == InitThumb /\ [][NextWire]_vars

-----------------------------------------------------------------------------
(* A SearchResults object built with no filter criterion, on which         *)
(* filter_and_sort is called again and again                               *)

\* The hits of the response
MaxUnfiltered == 2

\* The calls of filter_and_sort made on the object
MaxRepeats == 3

\* How the caller leaves the filters out: no filters argument, or filters={}
NoCriterion == {"omitted", "empty"}

\* kwargs.get("filters", {"": ""}) when the argument is given as `given`
filters_kwarg(given) == IF given = "omitted" THEN DefaultFilters ELSE EmptyDict

InitRepeat ==
    /\ IdleIndexer
    /\ snippet = Idle /\ matched = Idle /\ wire = Idle /\ problem = Idle
    /\ \E sources \in SeqsUpTo(Sources, MaxUnfiltered), given \in NoCriterion, sort \in Sorts :
           LET entries == [k \in 1..Len(sources) |-> [oid |-> k, data |-> sources[k]]]
           IN  results = [status |-> "built", entries |-> entries,
                          filters |-> filters_kwarg(given),
                          sort |-> sort, op |-> "none", before |-> entries,
                          field |-> "", value |-> None, returned |-> {}, ops |-> 0,
                          given |-> given, original |-> entries]

filter_and_sort_again == filter_and_sort_within(MaxRepeats)

NextRepeat == filter_and_sort_again

SpecRepeat == InitRepeat /\ [][NextRepeat]_vars

-----------------------------------------------------------------------------
(* The claims.                                                             *)

\* A value that holds no text: an empty string, an empty list, or a list
\* of empty strings
HoldsNothing(x) ==
    x.v = <<>> \/ (x.t = "list" /\ \A k \in 1..Len(x.v) : x.v[k] = "")

\* C1: every document the engine has stored has all seven fields non-empty:
\* no field of a stored document is an empty string or holds no text.
C1_WrittenFieldsNonEmpty ==
    \A w \in writes : \A f \in DOMAIN w.data : ~HoldsNothing(w.data[f])

\* C2: indexing is idempotent.  Once a call of index_course has ended with
\* every document it submitted stored, the engine's content (its keys and
\* its documents) is never different again: a later call on the unchanged
\* store replaces documents and adds none.
C2_Idempotent ==
    \A k \in 1..Len(run_log) : run_log[k].stored => engine = run_log[k].engine

\* C2's case: two calls have ended, each with all its documents stored, the
\* second has written, and the engine holds two documents.
C2_Witness ==
    /\ Len(run_log) = 2
    /\ run_log[1].stored /\ run_log[2].stored
    /\ \E w \in writes : w.call = 2
    /\ Cardinality(engine) = 2

\* The item is one index_course submits when its turn comes: a video or a
\* problem whose document builds with every value true
Complete(item) ==
    LET to == Dispatch(Category(item))
    IN  /\ to.type_ # "continue"
        /\ \A r \in basic_dict(item, to.type_) :
              r.raised = "no" /\ AllValuesTrue(r.data)

\* C3: a failure while one item is processed does not abort the iteration.
\* When a call of index_course has ended other than by a failed engine
\* write, every item of the collection whose document is complete has been
\* submitted in that call.
C3_FailureDoesNotAbort ==
    (pc = "idle" /\ ended.how \in {"returned", "raised"}
        /\ ended.exc # "AttributeError")
    => \A k \in 1..Len(cursor) : Complete(cursor[k]) => cursor[k] \in submitted

\* C4: when every attempt of an engine write failed and index_data returned
\* None, index_course raises nothing and goes on with the loop.
C4_AbsentResultIsSkipped ==
    (fr.caller = "index_data" /\ fr.status = "returned"
        /\ flaky_ret.value.t = "none")
    => (ended.how # "raised" /\ pc = "loop")

\* C5: flaky_request makes at most attempts requests (2 when attempts is
\* not given); every request before the last one made ended in a
\* RequestException, so none follows a response; it returns the response
\* of the attempt that got one, and None exactly when every attempt ended
\* in a RequestException; what it raises is never a RequestException.
C5_BoundedRetry ==
    /\ Len(fr.log) <= fr.attempts
    /\ fr.status # "none" /\ ~fr.given => fr.attempts = 2
    /\ \A k \in 1..(Len(fr.log) - 1) : fr.log[k] = "RequestException"
    /\ fr.status = "returned" =>
          /\ flaky_ret.how = "returned"
          /\ flaky_ret.value.t = "none"
                <=> (/\ Len(fr.log) = fr.attempts
                     /\ \A k \in 1..Len(fr.log) : fr.log[k] = "RequestException")
          /\ flaky_ret.value.t # "none" =>
                /\ fr.log[Len(fr.log)] = "Response"
                /\ flaky_ret.value = Response(Len(fr.log))
    /\ fr.status = "raised" =>
          /\ flaky_ret.how = "raised"
          /\ flaky_ret.exc # "RequestException"
          /\ fr.log[Len(fr.log)] # "RequestException"

\* C5's case: the first attempt failed, the second got a response, and the
\* call returned it with attempts left (attempts = 3).
C5_Witness ==
    /\ fr.status = "returned"
    /\ fr.attempts = 3
    /\ fr.log = <<"RequestException", "Response">>
    /\ flaky_ret.value = Response(2)

\* The category index_course computes for each module the store can hold
CategoryOf == [m \in ContentModules \cup CourseElements |-> Category(m)]

\* C6: every write of a video item's document goes to "transcript-index",
\* every write of a problem item's document to "problem-index", and an item
\* of any other category has no write, no basic_dict call and no course
\* element lookup.
C6_Dispatch ==
    /\ \A w \in writes :
          \/ CategoryOf[w.item] = <<"v", "i", "d", "e", "o">> /\ w.index = "transcript-index"
          \/ CategoryOf[w.item] = <<"p", "r", "o", "b", "l", "e", "m">> /\ w.index = "problem-index"
    /\ \A item \in built : CategoryOf[item] \in {<<"v", "i", "d", "e", "o">>, <<"p", "r", "o", "b", "l", "e", "m">>}
    /\ \A c \in Courses : \A k \in 1..Len(lookups[c]) :
          CategoryOf[lookups[c][k].item] \in {<<"v", "i", "d", "e", "o">>, <<"p", "r", "o", "b", "l", "e", "m">>}

\* C6's case: a call has passed an item of another category, and the
\* engine has stored a video (its category spelt " Video ") and a problem.
C6_Witness ==
    /\ \E k \in 1..counter : Category(cursor[k]) \notin {<<"v", "i", "d", "e", "o">>, <<"p", "r", "o", "b", "l", "e", "m">>}
    /\ \E w \in writes : w.item._id.category # <<"v", "i", "d", "e", "o">> /\ w.index = "transcript-index"
    /\ \E w \in writes : w.index = "problem-index"

\* C7: the course element of a collection is looked up in the store at
\* most once per collection identifier: of the lookups made for a course,
\* at most one has found the course element (the items after it take the
\* offering from MONGO_COURSE_CACHE).
C7_OneLookupPerCourse ==
    \A c \in Courses :
        Cardinality({k \in 1..Len(lookups[c]) : lookups[c][k].found}) <= 1

\* C8: for data written from speed:identifier entries, a list of exactly
\* one entry gives False, and a list of two or more entries with a speed
\* containing "1.0" gives the identifier the speed map pairs with such a
\* speed (the identifier of the last entry that has that speed);
\* "0.75:abc" gives False and "0.75:abc,1.0:xyz" gives "xyz".
C8_UuidFromEntries ==
    uuid_ret # Pending =>
       /\ Len(uuid_entries) = 1 => uuid_ret = [raised |-> "no", value |-> False]
       /\ (Len(uuid_entries) >= 2
             /\ \E k \in 1..Len(uuid_entries) : Contains(OneZero, uuid_entries[k][1]))
          => /\ uuid_ret.raised = "no"
             /\ \E k \in 1..Len(uuid_entries) :
                   /\ Contains(OneZero, uuid_entries[k][1])
                   /\ \A m \in (k + 1)..Len(uuid_entries) :
                         uuid_entries[m][1] # uuid_entries[k][1]
                   /\ uuid_ret.value.v = uuid_entries[k][2]
       /\ uuid_entries = << <<<<"0", ".", "7", "5">>, <<"a", "b", "c">>>> >> => uuid_ret.value = False
       /\ uuid_entries = << <<<<"0", ".", "7", "5">>, <<"a", "b", "c">>>>, <<<<"1", ".", "0">>, <<"x", "y", "z">>>> >>
             => uuid_ret.value.v = <<"x", "y", "z">>

\* C8's case: the call on "1.0:abc,1.0:xyz" has returned "xyz".
C8_Witness ==
    /\ uuid_entries = << <<<<"1", ".", "0">>, <<"a", "b", "c">>>>, <<<<"1", ".", "0">>, <<"x", "y", "z">>>> >>
    /\ uuid_ret.raised = "no"
    /\ uuid_ret.value.v = <<"x", "y", "z">>

\* C9: media-identifier resolution never raises: no call of index_course
\* ends with the IndexError of uuid_from_video_module.
C9_UuidNeverRaises ==
    ended.how = "raised" => ended.exc # "IndexError"

\* No transcript text can be extracted for the video: the transcript is
\* the [""] of find_transcript_for_video_module
WithoutTranscript(item) ==
    /\ Category(item) = <<"v", "i", "d", "e", "o">>
    /\ \A u \in uuid_from_video_module(item) :
          /\ u.raised = "no"
          /\ find_transcript_for_video_module(item, u).value = NoTranscript

\* C10: index_course never writes a document for a video item for which
\* no transcript text can be extracted.
C10_NoTranscriptNoWrite ==
    \A w \in writes : ~WithoutTranscript(w.item)

-----------------------------------------------------------------------------
(* The claims about the snippet engine.                                    *)

\* The sentence contains a word of the query, whatever the case of either
HasTerm(sentence, query) ==
    \E n \in 1..Len(split_words(query)) :
        Contains(lower(split_words(query)[n]), lower(sentence))

\* The first sentence of the call's text that contains a query term
FirstWithTerm ==
    CHOOSE k \in 1..Len(snippet.sentences) :
        /\ HasTerm(snippet.sentences[k], snippet.query)
        /\ \A m \in 1..(k - 1) : ~HasTerm(snippet.sentences[m], snippet.query)

\* The words of sentences a..b of the call's text, in order
WordsOf(a, b) == split_words(join(<<" ">>, SubSeq(snippet.sentences, a, b)))

IsPrefix(p, q) == Len(p) <= Len(q) /\ SubSeq(q, 1, Len(p)) = p

\* What a snippet that starts at sentence from holds when the sentences
\* from first on are under the soft_max rule: every sentence in full up to
\* the first one, first or later, with which the words counted from
\* sentence from on reach soft_max, and of that one word_margin words
WordsUnderRule(from, first) ==
    LET last == Len(snippet.sentences)
        over == {n \in first..last : Len(WordsOf(from, n)) >= snippet.soft_max}
        o    == CHOOSE n \in over : \A m \in over : n <= m
        cut  == WordsOf(o, o)
    IN  IF over = {} THEN WordsOf(from, last)
        ELSE WordsOf(from, o - 1)
                \o SubSeq(cut, 1, IF snippet.word_margin < Len(cut)
                                  THEN snippet.word_margin ELSE Len(cut))

\* C11: when a sentence of the text contains a query term, the snippet
\* (as it is before highlighting) starts with the first such sentence in
\* full, and its words are words of the text from that sentence on: no
\* earlier sentence is in it.
C11_StartsAtFirstMatch ==
    (snippet.status = "returned"
        /\ \E k \in 1..Len(snippet.sentences) : HasTerm(snippet.sentences[k], snippet.query))
    => /\ IsPrefix(snippet.sentences[FirstWithTerm], snippet.response)
       /\ IsPrefix(split_words(snippet.response),
                   WordsOf(FirstWithTerm, Len(snippet.sentences)))

\* C11's case: the query "history" on a text whose first sentence has no
\* term and whose second is "History begins here.": the snippet starts
\* with the second.
C11_Witness ==
    /\ snippet.status = "returned"
    /\ snippet.query = <<"h", "i", "s", "t", "o", "r", "y">>
    /\ Len(snippet.sentences) >= 2
    /\ snippet.sentences[1] = <<"I", "n", "t", "r", "o", " ", "s", "e", "n", "t", "e", "n", "c", "e", ".">>
    /\ snippet.sentences[2] = <<"H", "i", "s", "t", "o", "r", "y", " ", "b", "e", "g", "i", "n", "s", " ", "h", "e", "r", "e", ".">>
    /\ IsPrefix(<<"H", "i", "s", "t", "o", "r", "y", " ", "b", "e", "g", "i", "n", "s", " ", "h", "e", "r", "e", ".">>, snippet.response)

\* C12: after the starting sentence, sentences are appended in full while
\* the words so far plus the next sentence's words stay under soft_max; the
\* first sentence that reaches or crosses soft_max gives its first
\* word_margin words, and no sentence after it gives anything.
C12_AppendThenTruncate ==
    (snippet.status = "returned"
        /\ \E k \in 1..Len(snippet.sentences) : HasTerm(snippet.sentences[k], snippet.query))
    => split_words(snippet.response) = WordsUnderRule(FirstWithTerm, FirstWithTerm + 1)

\* C12's case: a sentence appended in full, then an overflow sentence cut
\* to word_margin words with a sentence left after it: soft_max 7, "History
\* begins here." (3), "Intro sentence." (2), then six words cut to two.
C12_Witness ==
    /\ snippet.status = "returned"
    /\ snippet.query = <<"h", "i", "s", "t", "o", "r", "y">>
    /\ snippet.soft_max = 7 /\ snippet.word_margin = 2
    /\ snippet.sentences = << <<"H", "i", "s", "t", "o", "r", "y", " ", "b", "e", "g", "i", "n", "s", " ", "h", "e", "r", "e", ".">>, <<"I", "n", "t", "r", "o", " ", "s", "e", "n", "t", "e", "n", "c", "e", ".">>,
                              <<"M", "o", "r", "e", " ", "d", "e", "t", "a", "i", "l", "s", " ", "f", "o", "l", "l", "o", "w", " ", "w", "i", "t", "h", " ", "e", "x", "t", "r", "a", " ", "w", "o", "r", "d", "s", ".">> >>
    /\ split_words(snippet.response)
          = << <<"H", "i", "s", "t", "o", "r", "y">>, <<"b", "e", "g", "i", "n", "s">>, <<"h", "e", "r", "e", ".">>, <<"I", "n", "t", "r", "o">>, <<"s", "e", "n", "t", "e", "n", "c", "e", ".">>,
               <<"M", "o", "r", "e">>, <<"d", "e", "t", "a", "i", "l", "s">> >>

\* C13: when no sentence contains a query term, the snippet is accumulated
\* from the first sentence under the same rule, and for a text with a word
\* it is not empty and begins with the first words of the text.
C13_FallbackFromStart ==
    (snippet.status = "returned"
        /\ \A k \in 1..Len(snippet.sentences) : ~HasTerm(snippet.sentences[k], snippet.query))
    => /\ split_words(snippet.response) = WordsUnderRule(1, 1)
       /\ IsPrefix(split_words(snippet.response), WordsOf(1, Len(snippet.sentences)))
       /\ snippet.sentences # <<>> =>
             /\ split_words(snippet.response) # <<>>
             /\ split_words(snippet.value) # <<>>
             /\ split_words(snippet.response)[1] = WordsOf(1, 1)[1]

\* C13's case: the empty query on a text whose first sentence alone reaches
\* soft_max: the snippet is the first word of the text.
C13_Witness ==
    /\ snippet.status = "returned"
    /\ snippet.query = <<>>
    /\ snippet.soft_max = 3 /\ snippet.word_margin = 1
    /\ Len(snippet.sentences) = 2
    /\ snippet.sentences[1] = <<"A", " ", "h", "i", "d", "d", "e", "n", " ", "h", "i", "s", "t", "o", "r", "y", " ", "i", "s", " ", "t", "o", "l", "d", ".">>
    /\ split_words(snippet.response) = << <<"A">> >>

\* C14: with the query term "histories", the word "history" of the snippet
\* is wrapped in the highlight markup and the word "hidden" is not.
C14_HistoriesHighlightsHistory ==
    (snippet.status = "returned" /\ snippet.bold /\ lower(snippet.query) = <<"h", "i", "s", "t", "o", "r", "i", "e", "s">>)
    => \A n \in 1..Len(split_words(snippet.response)) :
          LET word == split_words(snippet.response)[n]
          IN  /\ depunctuation(lower(word)) = <<"h", "i", "s", "t", "o", "r", "y">>
                    => split_words(snippet.value)[n] = wrap(word)
              /\ depunctuation(lower(word)) = <<"h", "i", "d", "d", "e", "n">>
                    => split_words(snippet.value)[n] = word

\* C18: the snippet is never more than word_margin words past soft_max.
C18_AtMostMarginPastSoftMax ==
    snippet.status = "returned"
    => Len(split_words(snippet.response)) <= snippet.soft_max + snippet.word_margin

-----------------------------------------------------------------------------
(* The claims about _match.                                                *)

\* C19: _match is true exactly when one word is a substring of the other
\* and six times the difference of their lengths is less than their
\* combined length, and a word equal to the query term is highlighted.
C19_MatchIsSixthRule ==
    matched.status = "returned" =>
        LET a == matched.term
            b == matched.word
            d == IF Len(a) < Len(b) THEN Len(b) - Len(a) ELSE Len(a) - Len(b)
        IN  /\ matched.result <=>
                   /\ Contains(a, b) \/ Contains(b, a)
                   /\ 6 * d < Len(a) + Len(b)
            /\ a = b => split_words(matched.bold) = <<wrap(b)>>

-----------------------------------------------------------------------------
(* The claims about SearchResults.                                         *)

\* A text lower-cased, then without its punctuation
Normalised(s) == depunctuation(lower(s))

\* The entry's text for the field has the value in it, both normalised; an
\* entry without the field has the empty text, None is the empty value
Matches(entry, field, value) ==
    Contains(Normalised(IF value = None THEN <<>> ELSE value.v),
             Normalised(IF field \in DOMAIN entry.data THEN entry.data[field] ELSE <<>>))

\* C15: filter(field, value) returns exactly the current entries whose
\* normalised text for the field contains the normalised value, so that
\* "Problem" matches the category "PROBLEM TYPE A", and leaves the entry
\* collection as it was.
C15_FilterContains ==
    results.op = "filter" =>
        /\ results.returned =
               {e \in Range(results.before) : Matches(e, results.field, results.value)}
        /\ (results.field = "category" /\ results.value = Unicode(<<"P", "r", "o", "b", "l", "e", "m">>)) =>
               \A e \in Range(results.before) :
                   ("category" \in DOMAIN e.data /\ e.data.category = <<"P", "R", "O", "B", "L", "E", "M", " ", "T", "Y", "P", "E", " ", "A">>)
                       => e \in results.returned
        /\ results.entries = results.before

\* A filter for "Problem" on the category returned the entry of category
\* "PROBLEM TYPE A" and left another entry out
C15_Witness ==
    /\ results.op = "filter"
    /\ results.field = "category" /\ results.value = Unicode(<<"P", "r", "o", "b", "l", "e", "m">>)
    /\ \E e \in results.returned : e.data = [category |-> <<"P", "R", "O", "B", "L", "E", "M", " ", "T", "Y", "P", "E", " ", "A">>, display_name |-> <<"W", "e", "e", "k", " ", "1">>]
    /\ \E e \in Range(results.entries) : e \notin results.returned

\* C16: after filter_and_sort the entry collection holds, once each, exactly
\* the entries held before the call that match at least one pair of the
\* filters.
C16_UnionOfFilters ==
    results.op = "filter_and_sort" =>
        LET kept == {e \in Range(results.before) :
                        \E f \in DOMAIN results.filters : Matches(e, f, results.filters[f])}
        IN  /\ Range(results.entries) = kept
            /\ Len(results.entries) = Cardinality(kept)

\* Two filters: one entry that matches both and one that matches only one
\* of them were kept, and an entry that matches neither was dropped
C16_Witness ==
    /\ results.op = "filter_and_sort"
    /\ Cardinality(DOMAIN results.filters) = 2
    /\ \E e \in Range(results.entries) :
           \A f \in DOMAIN results.filters : Matches(e, f, results.filters[f])
    /\ \E e \in Range(results.entries) :
           \E f \in DOMAIN results.filters : ~Matches(e, f, results.filters[f])
    /\ \E e \in Range(results.before) : e \notin Range(results.entries)

-----------------------------------------------------------------------------
(* The claims about the text of a problem.                                 *)

\* C20: a <p> tag whose body is exactly "Explanation" contributes nothing
\* to the searchable text of a problem: the text is that of the same data
\* without those tags, and holds the word only where another tag has it.
C20_ExplanationExcluded ==
    problem.status = "returned" =>
        LET others == SelectSeq(problem.pieces, LAMBDA piece : piece # Placeholder)
        IN  /\ problem.raised = "no"
            /\ problem.value =
                   searchable_text_from_problem_data(problem_element(concat(others))).value
            /\ (\A k \in 1..Len(others) : ~Contains(Explanation, others[k]))
                   => ~Contains(Explanation, problem.value.v)

-----------------------------------------------------------------------------
(* The claims about the round trip.                                        *)

\* Python's == on two strings, or on two lists of strings
PyEqual(a, b) ==
    IF a.t = "list" \/ b.t = "list" THEN a = b ELSE a.v = b.v

\* C17: a document built by basic_dict and written by bulk_index_item as an
\* action line and a data line comes back, when the data line is the
\* _source of a hit, as an entry of SearchResults whose display_name,
\* course_id and searchable_text equal the document's.
C17_RoundTrip ==
    /\ wire.status = "sent" =>
           /\ Cardinality({k \in 1..Len(wire.text) : wire.text[k] = "\n"}) = 2
           /\ wire.text[Len(wire.text)] = "\n"
           /\ Contains(JsonString(wire.data.type_hash.v), Line(wire.text, 1))
           /\ Contains(JsonString(wire.data.hash.v), Line(wire.text, 1))
    /\ (wire.status = "raised" => wire.at = "basic_dict")
    /\ wire.status = "built" =>
           /\ Len(wire.entries) = 1
           /\ \A key \in {<<"d", "i", "s", "p", "l", "a", "y", "_", "n", "a", "m", "e">>, <<"c", "o", "u", "r", "s", "e", "_", "i", "d">>, <<"s", "e", "a", "r", "c", "h", "a", "b", "l", "e", "_", "t", "e", "x", "t">>} :
                  key \in DOMAIN wire.entries[1].data
           /\ PyEqual(wire.entries[1].data[<<"d", "i", "s", "p", "l", "a", "y", "_", "n", "a", "m", "e">>], wire.data.display_name)
           /\ PyEqual(wire.entries[1].data[<<"c", "o", "u", "r", "s", "e", "_", "i", "d">>], wire.data.course_id)
           /\ PyEqual(wire.entries[1].data[<<"s", "e", "a", "r", "c", "h", "a", "b", "l", "e", "_", "t", "e", "x", "t">>], wire.data.searchable_text)

-----------------------------------------------------------------------------
(* The claims about repeated characters.                                   *)

\* C21: the text of a problem holds no run of five or more consecutive
\* identical characters, whether the run stood in the data or came
\* together when a run or a tag between its parts was removed.
C21_NoRunOfFive ==
    (problem.status = "returned" /\ problem.raised = "no") =>
        \A k \in 1..(Len(problem.value.v) - 4) :
            \E j \in 1..4 : problem.value.v[k + j] # problem.value.v[k]

-----------------------------------------------------------------------------
(* The claims about thumbnails.                                            *)

\* C22: the thumbnail of a video's document, which the indexer stores as an
\* external image URL, is the thumbnail of the SearchResult built from the
\* document, unchanged and without the prefix of inline image data.
C22_UrlUnchanged ==
    (wire.status = "built" /\ Dispatch(Category(wire.item)).type_ = "transcript") =>
        /\ wire.entries[1].thumbnail = wire.data.thumbnail.v
        /\ wire.entries[1].thumbnail[1] # "data:image/jpg;base64,"

-----------------------------------------------------------------------------
(* The claims about a result set with no filter criterion.                 *)

\* C23 as stated: with the filters argument omitted or an empty mapping
\* given, filter_and_sort keeps every entry of the result set, and every
\* further call leaves the set of entries as the call before it left it.
C23_KeepsEveryEntry ==
    (results.status = "built" /\ results.ops >= 1) =>
        /\ Range(results.entries) = Range(results.original)
        /\ Len(results.entries) = Len(results.original)
        /\ results.ops >= 2 => Range(results.entries) = Range(results.before)

\* C23, amended: with the filters argument omitted filter_and_sort keeps
\* every entry of the result set, once each; with an empty mapping given it
\* keeps no entry; either way every further call leaves the set of entries
\* as the call before it left it.
C23_OmittedKeepsEmptyDrops ==
    (results.status = "built" /\ results.ops >= 1) =>
        /\ results.given = "omitted" =>
               /\ Range(results.entries) = Range(results.original)
               /\ Len(results.entries) = Len(results.original)
        /\ results.given = "empty" => results.entries = <<>>
        /\ results.ops >= 2 => Range(results.entries) = Range(results.before)

\* Two hits, the filters argument omitted, filter_and_sort called twice or
\* more, the entries all there in another order than the response gave
C23_Witness ==
    /\ results.status = "built"
    /\ results.ops >= 2
    /\ results.given = "omitted"
    /\ Len(results.original) = 2
    /\ results.entries # results.original
    /\ Range(results.entries) = Range(results.original)

\* An empty mapping given, a hit in the response, filter_and_sort called
C23_EmptyMappingCalled ==
    /\ results.status = "built"
    /\ results.ops >= 1
    /\ results.given = "empty"
    /\ results.original # <<>>

====
